---- MODULE Spec2Model ----
(***************************************************************************)
(* A model of the recoil-autohost controller:                              *)
(*   - EngineRunnerImpl   (src/src/engineRunner.ts)                        *)
(*   - GamesManager       (src/src/games.ts)                               *)
(*   - Autohost           (src/src/autohost.ts)                            *)
(*   - EventsBuffer       (src/unnamed/part_013, eventsBuffer.ts)          *)
(*   - MultiIndex         (src/unnamed/part_024, multiIndex.ts)            *)
(*                                                                         *)
(* The program runs on the Node.js event loop.  One action of the model is *)
(* one callback run to completion, together with the promise continuations *)
(* it makes runnable; a callback scheduled with process.nextTick is a      *)
(* separate action that runs before any other I/O callback.                *)
(***************************************************************************)
EXTENDS Integers, Sequences, FiniteSets, TLC

VARIABLES
    runner,        \* SpecRunner: one EngineRunnerImpl and its process and socket
    nEmitted,      \* SpecRunner: how many times the runner emitted each event
    closeCalls,    \* SpecRunner: how many times close() was called
    order,         \* SpecRunner: in what order the runner emitted its events,
                   \* and whether a foreign datagram came
    runners,       \* SpecGames: the EngineRunnerImpl made for each battle id
    world,         \* SpecGames: the GamesManager (gm) and the Autohost (ah)
    calls,         \* SpecGames: the battles whose runner emitted start, and exit
    eb,            \* SpecBuffer: one EventsBuffer and its pusher loop
    env,           \* SpecBuffer: Date.now() and the maxAge the buffer was made with
    obs,           \* SpecBuffer: what was pushed, subscribed and delivered
    players,       \* SpecPlayers: the MultiIndex of one battle's players
    sends,         \* SpecPlayers: the adduser sends addPlayer is awaiting
    adds,          \* SpecPlayers: the last addPlayer and the names rolled back
    specs,         \* SpecPlayers: the specPlayers loops and the last specPlayers
    call,          \* SpecCall: the last callTachyonAutohost and what it returned
    evm,           \* SpecRegistry, SpecInstall: one EngineVersionsManagerImpl
    lobby,         \* SpecClient, SpecSupervisor: the TachyonClient and main's loop
    dl             \* SpecDownload: one downloadAndVerifyArchive call

runnerVars == <<runner, nEmitted, closeCalls, order>>
gamesVars == <<runners, world, calls>>
bufferVars == <<eb, env, obs>>
playerVars == <<players, sends, adds, specs>>
callVars == <<call>>
versionVars == <<evm>>
lobbyVars == <<lobby>>
installerVars == <<dl>>
vars == <<runnerVars, gamesVars, bufferVars, playerVars, callVars, versionVars,
          lobbyVars, installerVars>>

\* What a step of one component leaves alone.
notRunnerVars == <<gamesVars, bufferVars, playerVars, callVars, versionVars,
    lobbyVars, installerVars>>
notGamesVars == <<runnerVars, bufferVars, playerVars, callVars, versionVars,
    lobbyVars, installerVars>>
notBufferVars == <<runnerVars, gamesVars, playerVars, callVars, versionVars,
    lobbyVars, installerVars>>
notPlayerVars == <<runnerVars, gamesVars, bufferVars, callVars, versionVars,
    lobbyVars, installerVars>>
notCallVars == <<runnerVars, gamesVars, bufferVars, playerVars, versionVars,
    lobbyVars, installerVars>>
notVersionVars == <<runnerVars, gamesVars, bufferVars, playerVars, callVars,
    lobbyVars, installerVars>>
notLobbyVars == <<runnerVars, gamesVars, bufferVars, playerVars, callVars,
    versionVars, installerVars>>
notInstallerVars == <<runnerVars, gamesVars, bufferVars, playerVars, callVars,
    versionVars, lobbyVars>>

----------------------------------------------------------------------------
(* EngineRunnerImpl: src/src/engineRunner.ts                               *)

\* enum State, in declaration order, so that `state >= State.Stopping` is StateNum.
StateNum(s) ==
    CASE s = "None" -> 0
      [] s = "Starting" -> 1
      [] s = "Running" -> 2
      [] s = "Stopping" -> 3
      [] s = "Stopped" -> 4

\* Packet types the runner tells apart (EventType of engineAutohostInterface).
PacketTypes == {"SERVER_STARTED", "SERVER_QUIT", "SERVER_MESSAGE"}

\* A datagram parsePacket rejects, and what may arrive on the socket.
Undecodable == "undecodable"
Datagrams == PacketTypes \cup {Undecodable}

\* The UDP source ports a datagram can come from: the engine's and a stranger's.
EnginePort == 1
StrangerPort == 2
SourcePorts == {EnginePort, StrangerPort}

\* A new EngineRunnerImpl (field initialisers and constructor).  Besides the
\* fields the record holds the runner's environment:
\*   pc       where the async run() of _run stands
\*   proc     the engine process: none, spawning, alive, dead, failed (no spawn)
\*   sigterm  whether SIGTERM was delivered to the process
\*   killTimers   how many SIGKILL timers of killEngine are armed
\*   timersArmed  how many were armed so far
\*   sigkill  whether a timer's callback sent SIGKILL
\*   exitTick whether the nextTick callback that emits `exit` is queued
\*   out      the events emitted by the callback that is running
NewRunner ==
    [state |-> "None", udpServer |-> "null", engineProcess |-> "null",
     engineSpawned |-> FALSE, engineAutohostPort |-> 0,
     pc |-> "idle", proc |-> "none", sigterm |-> FALSE, exitTick |-> FALSE,
     out |-> <<>>, offEdge |-> FALSE,
     killTimers |-> 0, timersArmed |-> 0, sigkill |-> FALSE]

\* The transitions the comment of enum State allows.
StateEdges ==
    {<<"None", "Starting">>, <<"Starting", "Running">>,
     <<"Starting", "Stopping">>, <<"Running", "Stopping">>,
     <<"Stopping", "Stopped">>}

\* this.state = s; offEdge keeps whether any assignment so far left the edges.
SetState(r, s) ==
    [r EXCEPT !.state = s,
              !.offEdge = @ \/ <<r.state, s>> \notin StateEdges]

Emit(r, ev) == [r EXCEPT !.out = Append(@, ev)]

\* Mutant of maybeEmitExit: does not wait for the UDP socket to close.
MaybeEmitExitIgnoringSocket(r) ==
    IF r.state = "Stopping" /\ r.engineProcess = "null"
    THEN [SetState(r, "Stopped") EXCEPT !.exitTick = TRUE]
    ELSE r

\* maybeEmitExit
MaybeEmitExit(r) ==
    IF r.state = "Stopping" /\ r.engineProcess = "null" /\ r.udpServer = "null"
    THEN [SetState(r, "Stopped") EXCEPT !.exitTick = TRUE]
    ELSE r

\* Mutant of killEngine: signals a process that has not spawned yet.
KillEngineUnspawned(r) ==
    IF r.engineProcess = "null"
    THEN r
    ELSE [r EXCEPT !.sigterm = TRUE,
                   !.killTimers = @ + 1, !.timersArmed = @ + 1]

\* killEngine: for a spawned process it arms the 20 s SIGKILL timer, registers
\* the once('exit') listener that clears it, and sends SIGTERM.
KillEngine(r) ==
    IF r.engineProcess = "null" \/ ~r.engineSpawned
    THEN r
    ELSE [r EXCEPT !.sigterm = TRUE,
                   !.killTimers = @ + 1, !.timersArmed = @ + 1]

\* The callback of the SIGKILL timer: this.engineProcess?.kill('SIGKILL').
KillTimerFires(r) ==
    [r EXCEPT !.killTimers = @ - 1,
              !.sigkill = @ \/ r.engineProcess # "null"]

\* udpServer.close() of close(): the socket stops receiving, its 'close' event
\* comes later.
UdpClose(r) ==
    IF r.udpServer # "null" THEN [r EXCEPT !.udpServer = "closing"] ELSE r

\* close
Close(r) ==
    IF StateNum(r.state) >= StateNum("Stopping")
    THEN r
    ELSE MaybeEmitExit(UdpClose(KillEngine(SetState(r, "Stopping"))))

\* handleError
HandleError(r) ==
    IF StateNum(r.state) >= StateNum("Stopping")
    THEN r
    ELSE Close(Emit(r, "error"))

\* _run: the synchronous part; a second call throws and changes nothing.
Run(r) ==
    IF r.state # "None"
    THEN r
    ELSE [SetState(r, "Starting") EXCEPT !.pc = "setup"]

\* startUdpServer
StartUdpServer(r) ==
    IF r.state # "Starting" THEN r ELSE [r EXCEPT !.udpServer = "open"]

\* run(): setupInstanceDir resolved; startUdpServer runs and startEngine begins
\* with its fs.stat of the engine directory.
RunSetupDone(r) == [StartUdpServer(r) EXCEPT !.pc = "stat"]

\* run(): setupInstanceDir rejected (invalid start script, mkdir or write failure).
RunSetupFailed(r) == HandleError([r EXCEPT !.pc = "done"])

\* startEngine after fs.stat found the engine directory: spawn unless the runner
\* left Starting meanwhile.
StartEngineSpawn(r) ==
    IF r.state # "Starting"
    THEN [r EXCEPT !.pc = "done"]
    ELSE [r EXCEPT !.pc = "done", !.engineProcess = "set", !.proc = "spawning"]

\* startEngine when the engine directory is missing: engine_version_not_available
\* is thrown and run().catch hands it to handleError.
StartEngineMissing(r) == HandleError([r EXCEPT !.pc = "done"])

\* engineProcess.on('error'): the spawn failed (engineSpawned is false), or a
\* later failure of the spawned process (a kill that failed).
OnProcessError(r) ==
    LET r1 == IF ~r.engineSpawned
              THEN MaybeEmitExit([r EXCEPT !.engineProcess = "null",
                                           !.proc = "failed"])
              ELSE r
    IN  HandleError(r1)

\* Mutant of the 'spawn' handler: forgets the close() that came before the spawn.
OnProcessSpawnNoKill(r) == [r EXCEPT !.engineSpawned = TRUE, !.proc = "alive"]

\* engineProcess.on('spawn')
OnProcessSpawn(r) ==
    LET r1 == [r EXCEPT !.engineSpawned = TRUE, !.proc = "alive"]
    IN  IF r1.state = "Stopping" THEN KillEngine(r1) ELSE r1

\* Mutant of the 'exit' listeners: the SIGKILL timer is not cleared.
OnProcessExitTimerLeft(r, code0) ==
    LET r1 == [r EXCEPT !.engineProcess = "null", !.proc = "dead"]
        r2 == IF code0 THEN Close(r1) ELSE HandleError(r1)
    IN  MaybeEmitExit(r2)

\* engineProcess.on('exit', code): code0 is whether the exit code is 0.  The
\* once('exit') listeners of killEngine clear their timers.
OnProcessExit(r, code0) ==
    LET r1 == [r EXCEPT !.engineProcess = "null", !.proc = "dead",
                        !.killTimers = 0]
        r2 == IF code0 THEN Close(r1) ELSE HandleError(r1)
    IN  MaybeEmitExit(r2)

\* udpServer.on('close')
OnUdpClose(r) == MaybeEmitExit([r EXCEPT !.udpServer = "null"])

\* udpServer.on('error'): bind failure or any later socket error.
OnUdpError(r) == HandleError(r)

\* handleAutohostPacket, had it taken every SERVER_STARTED datagram for the
\* first packet of the engine.
HandleAutohostPacketRestarting(r, type, port) ==
    LET r1 == IF type = "SERVER_STARTED"
              THEN Emit(SetState([r EXCEPT !.engineAutohostPort = port],
                                 "Running"), "start")
              ELSE r
    IN  IF r1.engineAutohostPort # port
        THEN r1
        ELSE Emit(r1, type)

\* handleAutohostPacket without the comparison of the source port.
HandleAutohostPacketAnyPort(r, type, port) ==
    IF r.state = "Starting" /\ type # "SERVER_STARTED"
    THEN HandleError(r)
    ELSE LET r1 == IF r.state = "Starting"
                   THEN Emit(SetState([r EXCEPT !.engineAutohostPort = port],
                                      "Running"), "start")
                   ELSE r
         IN  Emit(r1, type)

\* Mutant of handleAutohostPacket: while Starting it skips a packet of another
\* type and waits for the next one.
HandleAutohostPacketPatient(r, type, port) ==
    IF type = Undecodable \/ (r.state = "Starting" /\ type # "SERVER_STARTED")
    THEN r
    ELSE LET r1 == IF r.state = "Starting"
                   THEN Emit(SetState([r EXCEPT !.engineAutohostPort = port],
                                      "Running"), "start")
                   ELSE r
         IN  IF r1.engineAutohostPort # port
             THEN r1
             ELSE Emit(r1, type)

\* handleAutohostPacket for a datagram that came from `port` and parsed as
\* `type`, or for which parsePacket threw a PacketParseError (Undecodable): the
\* catch block logs it and nothing else happens.
HandleAutohostPacket(r, type, port) ==
    IF type = Undecodable
    THEN r
    ELSE IF r.state = "Starting" /\ type # "SERVER_STARTED"
    THEN HandleError(r)
    ELSE LET r1 == IF r.state = "Starting"
                   THEN Emit(SetState([r EXCEPT !.engineAutohostPort = port],
                                      "Running"), "start")
                   ELSE r
         IN  IF r1.engineAutohostPort # port
             THEN r1
             ELSE Emit(r1, type)

\* The nextTick callback of maybeEmitExit.
ExitTick(r) == Emit([r EXCEPT !.exitTick = FALSE], "exit")

----------------------------------------------------------------------------
(* SpecRunner: one runner with its engine process and its socket.          *)

RunnerEvents == {"start", "error", "exit"}

\* How many close() calls one run of the model makes.
MaxCloseCalls == 2

CountOf(seq, ev) == Cardinality({i \in DOMAIN seq : seq[i] = ev})

\* What a listener of the runner has seen once it also sees the events of
\* `out`, in the order of their emission: whether `start`, a `packet` and `exit`
\* were emitted, whether a `packet` came before `start`, and whether a `start`
\* or a `packet` came after `exit`.  RPacket adds what arrived: a datagram
\* from a port other than the recorded one (blocked), and, while the runner
\* was Starting, a packet of another type than SERVER_STARTED (wrongFirst) or
\* a datagram that does not parse (garbled).
RECURSIVE Listen(_, _)
Listen(o, out) ==
    IF out = <<>>
    THEN o
    ELSE LET ev == Head(out)
             o1 == CASE ev = "start" ->
                          [o EXCEPT !.start = TRUE, !.afterExit = @ \/ o.exit]
                    [] ev = "exit" -> [o EXCEPT !.exit = TRUE]
                    [] ev \in PacketTypes ->
                          [o EXCEPT !.packet = TRUE,
                                    !.packetBeforeStart = @ \/ ~o.start,
                                    !.afterExit = @ \/ o.exit]
                    [] OTHER -> o
         IN  Listen(o1, Tail(out))

\* The callback ran to completion: its events are counted and the buffer of
\* emitted events is emptied.
Settle(r) ==
    /\ runner' = [r EXCEPT !.out = <<>>]
    /\ nEmitted' = [e \in RunnerEvents |-> nEmitted[e] + CountOf(r.out, e)]
    /\ order' = Listen(order, r.out)
    /\ UNCHANGED notRunnerVars

InitRunnerVars ==
    /\ runner = NewRunner
    /\ nEmitted = [e \in RunnerEvents |-> 0]
    /\ closeCalls = 0
    /\ order = [start |-> FALSE, packet |-> FALSE, exit |-> FALSE,
                packetBeforeStart |-> FALSE, afterExit |-> FALSE,
                blocked |-> FALSE, wrongFirst |-> FALSE, garbled |-> FALSE]

\* No I/O callback runs while a nextTick callback is queued; the code that
\* queued it may still call the runner before it returns.
RunnerIdle == ~runner.exitTick

RCallRun == runner.state = "None" /\ Settle(Run(runner))
    /\ UNCHANGED closeCalls

\* The second _run of the test "multi start, multi close": throws.
RCallRunAgain == runner.state # "None" /\ Settle(Run(runner))
    /\ UNCHANGED closeCalls

RCallClose ==
    /\ closeCalls < MaxCloseCalls
    /\ closeCalls' = closeCalls + 1
    /\ Settle(Close(runner))

RSetupDone == RunnerIdle /\ runner.pc = "setup" /\ Settle(RunSetupDone(runner))
    /\ UNCHANGED closeCalls

RSetupFailed == RunnerIdle /\ runner.pc = "setup" /\ Settle(RunSetupFailed(runner))
    /\ UNCHANGED closeCalls

RStatFound == RunnerIdle /\ runner.pc = "stat" /\ Settle(StartEngineSpawn(runner))
    /\ UNCHANGED closeCalls

RStatMissing == RunnerIdle /\ runner.pc = "stat" /\ Settle(StartEngineMissing(runner))
    /\ UNCHANGED closeCalls

RSpawned == RunnerIdle /\ runner.proc = "spawning" /\ Settle(OnProcessSpawn(runner))
    /\ UNCHANGED closeCalls

RSpawnFailed == RunnerIdle /\ runner.proc = "spawning" /\ Settle(OnProcessError(runner))
    /\ UNCHANGED closeCalls

RProcessError == RunnerIdle /\ runner.proc = "alive" /\ Settle(OnProcessError(runner))
    /\ UNCHANGED closeCalls

\* The engine process ends, by itself or by the signal.
RProcessExit ==
    /\ RunnerIdle
    /\ runner.proc = "alive"
    /\ \E code0 \in BOOLEAN : Settle(OnProcessExit(runner, code0))
    /\ UNCHANGED closeCalls

RUdpError == RunnerIdle /\ runner.udpServer = "open" /\ Settle(OnUdpError(runner))
    /\ UNCHANGED closeCalls

RUdpClosed == RunnerIdle /\ runner.udpServer = "closing" /\ Settle(OnUdpClose(runner))
    /\ UNCHANGED closeCalls

\* A datagram arrives on the bound socket.  The engine sends only once it runs;
\* a stranger on localhost may send at any time.
RPacket ==
    /\ RunnerIdle
    /\ runner.udpServer = "open"
    /\ \E type \in Datagrams, port \in SourcePorts :
          /\ port = EnginePort => runner.proc = "alive"
          /\ \E r \in {HandleAutohostPacket(runner, type, port)} :
                /\ runner' = [r EXCEPT !.out = <<>>]
                /\ nEmitted' = [e \in RunnerEvents |->
                                   nEmitted[e] + CountOf(r.out, e)]
                /\ order' = [Listen(order, r.out) EXCEPT
                                !.blocked =
                                   @ \/ /\ type # Undecodable
                                         /\ runner.engineAutohostPort # 0
                                         /\ runner.engineAutohostPort # port,
                                !.wrongFirst =
                                   @ \/ /\ runner.state = "Starting"
                                         /\ type \in PacketTypes
                                         /\ type # "SERVER_STARTED",
                                !.garbled =
                                   @ \/ /\ runner.state = "Starting"
                                         /\ type = Undecodable]
    /\ UNCHANGED <<closeCalls, notRunnerVars>>

RExitTick == runner.exitTick /\ Settle(ExitTick(runner)) /\ UNCHANGED closeCalls

\* 20 seconds after killEngine its timer fires, unless it was cleared.
RKillTimer == RunnerIdle /\ runner.killTimers > 0 /\ Settle(KillTimerFires(runner))
    /\ UNCHANGED closeCalls

NextRunner ==
    \/ RCallRun
    \/ RCallRunAgain
    \/ RCallClose
    \/ RSetupDone
    \/ RSetupFailed
    \/ RStatFound
    \/ RStatMissing
    \/ RSpawned
    \/ RSpawnFailed
    \/ RProcessError
    \/ RProcessExit
    \/ RUdpError
    \/ RUdpClosed
    \/ RPacket
    \/ RExitTick
    \/ RKillTimer

----------------------------------------------------------------------------
(* GamesManager (src/src/games.ts) and the Autohost's handlers of its      *)
(* events (src/src/autohost.ts).                                           *)

\* How many battle ids the lobby uses, and the configuration of the manager.
NumBattleIds == 3
MaxBattles == 2
MaxPortsUsed == 2
\* How many engine_quit or engine_crash updates of one battle are followed.
MaxTerminalUpdates == 2

BattleIds == 1..NumBattleIds

\* maxGameDurationSeconds, in ticks of the clock the match timeouts run on.
GameDurationTicks == 2
NoTimer == -1

\* new GamesManager(env) and new Autohost(env, gamesMgr, ...): the fields the
\* handlers below read and write.  updates counts, per battle, the engine_quit
\* and engine_crash updates handed to eventsBuffer.push; currentStatus is the
\* currentBattles of the status the adapter reports; down lists, for the
\* callback that is running, the events the manager has emitted and the
\* engine_quit updates the adapter has made up.  timers holds, per battle, the
\* ticks left on its match timeout, or NoTimer.  Of the shutdown, exitOnIdle
\* says that the `capacity` listener of Autohost.shutdown is registered,
\* draining that a promise of eventsBuffer.drain() is pending, and exited
\* whether process.exit was called: no, gracefully, forced.
NewWorld ==
    [gm |-> [games |-> <<>>, usedBattleIds |-> {}, usedPortOffset |-> {},
             lastPortOffset |-> 0, currentBattles |-> 0,
             timers |-> [b \in BattleIds |-> NoTimer],
             maxBattles |-> MaxBattles],
     ah |-> [finishedBattles |-> {}, battlePlayers |-> {},
             updates |-> [b \in BattleIds |-> 0],
             currentStatus |-> 0,
             shuttingDown |-> FALSE, exitOnIdle |-> FALSE,
             draining |-> FALSE, exited |-> "no"],
     down |-> <<>>]

\* findFreePortOffset without the test of line 77: it takes the offset after
\* the cursor whether or not a battle owns it.
FindFreePortOffsetUnchecked(last, used, i) ==
    LET next == (last + 1) % MaxPortsUsed
    IN  [found |-> TRUE, last |-> next, used |-> used \cup {next}]

\* findFreePortOffset from iteration i on: the cursor and the used set it leaves
\* and whether an offset was found (else it throws 'no free port offsets').
RECURSIVE FindFreePortOffset(_, _, _)
FindFreePortOffset(last, used, i) ==
    IF i >= MaxPortsUsed
    THEN [found |-> FALSE, last |-> last, used |-> used]
    ELSE LET next == (last + 1) % MaxPortsUsed
         IN  IF next \notin used
             THEN [found |-> TRUE, last |-> next, used |-> used \cup {next}]
             ELSE FindFreePortOffset(next, used, i + 1)

\* The first admission check, had it looked at the battles the manager holds
\* instead of the ids it has ever admitted.
BattleIdHeld(gm, b) == b \in DOMAIN gm.games

\* The first admission check of GamesManager.start.
BattleIdUsed(gm, b) == b \in gm.usedBattleIds

\* The second admission check, had it counted the started battles only.
TooManyBattlesStarted(gm) == gm.currentBattles >= gm.maxBattles

\* The second admission check of GamesManager.start.
TooManyBattles(gm) == Cardinality(DOMAIN gm.games) >= gm.maxBattles

\* Autohost's handler of the manager's `error` event.
AhOnError(w, b) ==
    IF b \notin w.ah.finishedBattles
    THEN [w EXCEPT !.ah.updates[b] = @ + 1,
                   !.ah.finishedBattles = @ \cup {b}]
    ELSE w

\* Autohost's handler of the manager's `exit` event, had it made up no
\* engine_quit.
AhOnExitSilent(w, b) ==
    [w EXCEPT !.ah.battlePlayers = @ \ {b},
              !.ah.finishedBattles = @ \ {b}]

\* Autohost's handler of the manager's `exit` event.
AhOnExit(w, b) ==
    LET w1 == [w EXCEPT !.ah.battlePlayers = @ \ {b}]
    IN  IF b \notin w1.ah.finishedBattles
        THEN [w1 EXCEPT !.ah.updates[b] = @ + 1,
                        !.down = Append(@, "engine_quit")]
        ELSE [w1 EXCEPT !.ah.finishedBattles = @ \ {b}]

\* Autohost.handlePacket, as far as engine_quit goes: SERVER_QUIT becomes the
\* engine_quit update, the other packets become other updates or none.
AhHandlePacket(w, b, type) ==
    IF type = "SERVER_QUIT"
    THEN [w EXCEPT !.ah.finishedBattles = @ \cup {b},
                   !.ah.updates[b] = @ + 1]
    ELSE w

\* Autohost's handler of the manager's `capacity` event.
AhOnCapacity(w, currentBattles) ==
    [w EXCEPT !.ah.currentStatus = currentBattles]

\* The manager emits an event: it is listed, then the adapter's listener runs.
GmEmit(w, ev) == [w EXCEPT !.down = Append(@, ev)]

\* The `capacity` listener Autohost.shutdown registers.
AhExitOnIdle(w, currentBattles) ==
    IF w.ah.exitOnIdle /\ currentBattles = 0
    THEN [w EXCEPT !.ah.draining = TRUE]
    ELSE w

\* this.emit('capacity', this.capacity)
GmEmitCapacity(w) ==
    AhExitOnIdle(AhOnCapacity(GmEmit(w, "capacity"), w.gm.currentBattles),
                 w.gm.currentBattles)

\* GamesManager.gameCount and setMaxBattles, which Autohost.shutdown calls.
GmGameCount(w) == Cardinality(DOMAIN w.gm.games)
GmSetMaxBattles(w, n) == [w EXCEPT !.gm.maxBattles = n]

\* Autohost.shutdown, as far as the adapter and the manager go; the runners
\* the second signal closes are closed by the action.
AhShutdown(w) ==
    IF w.ah.shuttingDown
    THEN [w EXCEPT !.ah.exited = "forced"]
    ELSE LET w1 == [w EXCEPT !.ah.shuttingDown = TRUE]
         IN  IF GmGameCount(w1) = 0
             THEN [GmSetMaxBattles(w1, 0) EXCEPT !.ah.draining = TRUE]
             ELSE [GmSetMaxBattles(w1, 0) EXCEPT !.ah.exitOnIdle = TRUE]

\* er.on('error') without the `if (game.started)` of line 115.
GmOnRunnerErrorUnguarded(w, b) == AhOnError(GmEmit(w, "error"), b)

\* er.on('error') of GamesManager.start.
GmOnRunnerError(w, b) ==
    IF w.gm.games[b].started THEN AhOnError(GmEmit(w, "error"), b) ELSE w

\* er.on('exit') without the `if (game.started)` of line 122.
GmOnRunnerExitUnguarded(w, b) ==
    LET game == w.gm.games[b]
        w1 == [w EXCEPT
                 !.gm.games = [x \in (DOMAIN @) \ {b} |-> @[x]],
                 !.gm.usedPortOffset = @ \ {game.portOffset}]
    IN  GmEmitCapacity([AhOnExit(GmEmit(w1, "exit"), b)
                          EXCEPT !.gm.currentBattles = @ - 1])

\* er.on('exit') with lines 124 and 125 swapped: `capacity` is emitted before
\* currentBattles is decremented.
GmOnRunnerExitStale(w, b) ==
    LET game == w.gm.games[b]
        w1 == [w EXCEPT
                 !.gm.games = [x \in (DOMAIN @) \ {b} |-> @[x]],
                 !.gm.usedPortOffset = @ \ {game.portOffset}]
    IN  IF game.started
        THEN [GmEmitCapacity(AhOnExit(GmEmit(w1, "exit"), b))
                EXCEPT !.gm.currentBattles = @ - 1]
        ELSE w1

\* er.on('exit') of GamesManager.start.
GmOnRunnerExit(w, b) ==
    LET game == w.gm.games[b]
        w1 == [w EXCEPT
                 !.gm.games = [x \in (DOMAIN @) \ {b} |-> @[x]],
                 !.gm.usedPortOffset = @ \ {game.portOffset}]
    IN  IF game.started
        THEN GmEmitCapacity([AhOnExit(GmEmit(w1, "exit"), b)
                               EXCEPT !.gm.currentBattles = @ - 1])
        ELSE w1

\* er.on('packet') of GamesManager.start.
GmOnRunnerPacket(w, b, type) ==
    IF w.gm.games[b].started
    THEN AhHandlePacket(GmEmit(w, "packet"), b, type)
    ELSE w

\* What follows `await events.once(er, 'start')` in GamesManager.start, then
\* what follows `await this.gamesMgr.start(req)` in Autohost.start, then the
\* nextTick callback of line 139, which reads the capacity when it runs.
GmStartContinuation(w, b) ==
    GmEmitCapacity([w EXCEPT !.gm.games[b].started = TRUE,
                             !.gm.currentBattles = @ + 1,
                             !.ah.battlePlayers = @ \cup {b}])

\* The match timeout, which the manager keeps beside the listeners: the timer
\* would outlive the exit of its battle.
GmTimersKept(w0, w1, b) ==
    IF b \in DOMAIN w1.gm.games /\ w1.gm.games[b].started
                                /\ ~w0.gm.games[b].started
    THEN [w1 EXCEPT !.gm.timers[b] = GameDurationTicks]
    ELSE w1

\* The match timeout: a callback of battle b's runner took the manager from w0
\* to w1.  A successful start arms the timer of the battle with
\* maxGameDurationSeconds; the exit of the battle cancels it.
GmTimers(w0, w1, b) ==
    IF b \notin DOMAIN w1.gm.games
    THEN [w1 EXCEPT !.gm.timers[b] = NoTimer]
    ELSE IF w1.gm.games[b].started /\ ~w0.gm.games[b].started
    THEN [w1 EXCEPT !.gm.timers[b] = GameDurationTicks]
    ELSE w1

\* Time passes: every armed timer that is not due yet has one tick less left.
GmTick(w) ==
    [w EXCEPT !.gm.timers = [b \in BattleIds |-> IF @[b] > 0 THEN @[b] - 1
                                                            ELSE @[b]]]

\* One event of battle b's runner reaches the manager's listeners.
Dispatch(w, b, ev) ==
    CASE ev = "error" -> GmOnRunnerError(w, b)
      [] ev = "exit" -> GmOnRunnerExit(w, b)
      [] ev = "start" -> w
      [] OTHER -> GmOnRunnerPacket(w, b, ev)

RECURSIVE DispatchAll(_, _, _)
DispatchAll(w, b, out) ==
    IF out = <<>>
    THEN w
    ELSE DispatchAll(Dispatch(w, b, Head(out)), b, Tail(out))

\* The events a runner callback emitted are handled in order by the listeners;
\* the promise continuations of a `start` run once the callback has returned.
Deliver(w, b, out) ==
    LET w1 == DispatchAll(w, b, out)
    IN  IF CountOf(out, "start") > 0 THEN GmStartContinuation(w1, b) ELSE w1

\* The synchronous part of GamesManager.start(req), up to its await.
GmStart(w, b) ==
    IF BattleIdUsed(w.gm, b)
    THEN [w |-> w, res |-> "battle_already_exists"]
    ELSE IF TooManyBattles(w.gm)
    THEN [w |-> w, res |-> "invalid_request"]
    ELSE LET w1 == [w EXCEPT !.gm.usedBattleIds = @ \cup {b}]
             f == FindFreePortOffset(w1.gm.lastPortOffset,
                                     w1.gm.usedPortOffset, 0)
             w2 == [w1 EXCEPT !.gm.lastPortOffset = f.last,
                              !.gm.usedPortOffset = f.used]
         IN  IF ~f.found
             THEN [w |-> w2, res |-> "internal_error"]
             ELSE [w |-> [w2 EXCEPT !.gm.games =
                            [x \in (DOMAIN @) \cup {b} |->
                               IF x = b
                               THEN [portOffset |-> f.last, started |-> FALSE]
                               ELSE @[x]]],
                   res |-> "pending"]

----------------------------------------------------------------------------
(* SpecGames: the manager, the adapter and the runners of the battles.     *)

\* `await events.once(er, 'start')`: the promise start() awaits is settled by
\* the first `start` (resolved) or `error` (rejected) the runner emits, and by
\* nothing else.
RECURSIVE EventsOnce(_, _)
EventsOnce(promise, out) ==
    IF promise # "pending" \/ out = <<>>
    THEN promise
    ELSE EventsOnce(CASE Head(out) = "start" -> "resolved"
                      [] Head(out) = "error" -> "rejected"
                      [] OTHER -> "pending",
                    Tail(out))

\* Nothing was emitted yet.  startPromise is, per battle, the promise its
\* start() call awaits: none, pending, resolved, rejected; SpecGames does not
\* follow these promises (unfollowed), SpecStarts does.
NewCalls ==
    [startEmitted |-> {}, exitEmitted |-> {},
     gmExit |-> [b \in BattleIds |-> 0], unstarted |-> {},
     nCapacity |-> 0,
     startPromise |-> [b \in BattleIds |-> "unfollowed"]]

InitGamesVars ==
    /\ runners = [b \in BattleIds |-> NewRunner]
    /\ world = NewWorld
    /\ calls = NewCalls

\* No nextTick callback is queued.
NoTick == \A b \in BattleIds : ~runners[b].exitTick

\* A callback of battle b's runner ran and left it as r: its events are handled,
\* and a runner that emitted `exit` is dropped with its game.  calls keeps what
\* the runners and the manager have emitted so far: the battles whose runner
\* emitted `start` and `exit`, the manager's `exit` events per battle, its
\* `capacity` events, and the battles for which it emitted an event or changed
\* currentBattles although their runner had emitted no `start`.
RunnerCallbackIn(w0, b, r) ==
    \E w1 \in {Deliver(w0, b, r.out)} :
        /\ world' = [GmTimers(w0, w1, b) EXCEPT !.down = <<>>]
        /\ runners' = [runners EXCEPT ![b] =
                         IF CountOf(r.out, "exit") > 0
                         THEN NewRunner
                         ELSE [r EXCEPT !.out = <<>>]]
        /\ calls' = [calls EXCEPT
                       !.startEmitted = IF CountOf(r.out, "start") > 0
                                        THEN @ \cup {b} ELSE @,
                       !.exitEmitted = IF CountOf(r.out, "exit") > 0
                                       THEN @ \cup {b} ELSE @,
                       !.gmExit[b] = @ + CountOf(w1.down, "exit"),
                       !.nCapacity = @ + CountOf(w1.down, "capacity"),
                       !.startPromise[b] = EventsOnce(@, r.out),
                       !.unstarted =
                           IF /\ b \notin calls.startEmitted
                              /\ CountOf(r.out, "start") = 0
                              /\ \/ w1.down # <<>>
                                 \/ w1.gm.currentBattles
                                       # world.gm.currentBattles
                           THEN @ \cup {b} ELSE @]
        /\ UNCHANGED notGamesVars

RunnerCallback(b, r) == RunnerCallbackIn(world, b, r)

\* Battle ids are opaque to the program: the lobby's ids are numbered in the
\* order of their first start request.
FreshOrUsed(b) ==
    \/ b \in world.gm.usedBattleIds
    \/ \A x \in BattleIds : x < b => x \in world.gm.usedBattleIds

\* Autohost.start(req) for battle id b.
GStart(b) ==
    /\ NoTick
    /\ FreshOrUsed(b)
    /\ LET s == GmStart(world, b)
       IN  /\ world' = s.w
           /\ runners' = IF s.res = "pending"
                         THEN [runners EXCEPT ![b] = Run(NewRunner)]
                         ELSE runners
           /\ calls' = IF s.res = "pending" /\ calls.startPromise[b] = "none"
                       THEN [calls EXCEPT !.startPromise[b] = "pending"]
                       ELSE calls
    /\ UNCHANGED notGamesVars

\* Autohost.kill(req): killGame closes the runner of a game the manager holds.
GKill(b) ==
    /\ NoTick
    /\ b \in DOMAIN world.gm.games
    /\ RunnerCallback(b, Close(runners[b]))

\* run() of the runner goes on: instance directory, socket, engine directory.
GRunnerStartup(b) ==
    /\ NoTick
    /\ b \in DOMAIN world.gm.games
    /\ \/ /\ runners[b].pc = "setup"
          /\ \E r \in {RunSetupDone(runners[b]), RunSetupFailed(runners[b])} :
                RunnerCallback(b, r)
       \/ /\ runners[b].pc = "stat"
          /\ \E r \in {StartEngineSpawn(runners[b]),
                       StartEngineMissing(runners[b])} :
                RunnerCallback(b, r)

\* The engine process reports 'spawn', 'error' or 'exit'.
GRunnerProcess(b) ==
    /\ NoTick
    /\ b \in DOMAIN world.gm.games
    /\ \/ /\ runners[b].proc = "spawning"
          /\ \E r \in {OnProcessSpawn(runners[b]), OnProcessError(runners[b])} :
                RunnerCallback(b, r)
       \/ /\ runners[b].proc = "alive"
          /\ \E r \in {OnProcessError(runners[b]),
                       OnProcessExit(runners[b], TRUE),
                       OnProcessExit(runners[b], FALSE)} :
                RunnerCallback(b, r)

\* The UDP socket reports 'error' or 'close'.
GRunnerSocket(b) ==
    /\ NoTick
    /\ b \in DOMAIN world.gm.games
    /\ \/ /\ runners[b].udpServer = "open"
          /\ RunnerCallback(b, OnUdpError(runners[b]))
       \/ /\ runners[b].udpServer = "closing"
          /\ RunnerCallback(b, OnUdpClose(runners[b]))

\* A datagram of the engine arrives on the socket of battle b.
GRunnerPacket(b) ==
    /\ NoTick
    /\ b \in DOMAIN world.gm.games
    /\ runners[b].udpServer = "open"
    /\ runners[b].proc = "alive"
    /\ world.ah.updates[b] < MaxTerminalUpdates
    /\ \E type \in PacketTypes :
          RunnerCallback(b, HandleAutohostPacket(runners[b], type, EnginePort))

\* The nextTick callback that emits `exit`.
GRunnerExitTick(b) ==
    /\ runners[b].exitTick
    /\ RunnerCallback(b, ExitTick(runners[b]))

NextGames ==
    \E b \in BattleIds :
        \/ GStart(b)
        \/ GKill(b)
        \/ GRunnerStartup(b)
        \/ GRunnerProcess(b)
        \/ GRunnerSocket(b)
        \/ GRunnerPacket(b)
        \/ GRunnerExitTick(b)

\* A tick of the clock passes with a match timeout armed and not yet due.
GTick ==
    /\ NoTick
    /\ \E b \in BattleIds : world.gm.timers[b] > 0
    /\ world' = GmTick(world)
    /\ UNCHANGED <<runners, calls, notGamesVars>>

\* The match timeout of battle b is due: its callback closes the runner.
GGameTimeout(b) ==
    /\ NoTick
    /\ world.gm.timers[b] = 0
    /\ RunnerCallbackIn([world EXCEPT !.gm.timers[b] = NoTimer], b,
                        Close(runners[b]))

\* A shutdown signal arrives.  The second one closes every runner the manager
\* holds (killAllGames) and exits.
GShutdown ==
    /\ world.ah.exited = "no"
    /\ NoTick
    /\ world' = AhShutdown(world)
    /\ runners' = IF world.ah.shuttingDown
                  THEN [b \in BattleIds |->
                          IF b \in DOMAIN world.gm.games
                          THEN [Close(runners[b]) EXCEPT !.out = <<>>]
                          ELSE runners[b]]
                  ELSE runners
    /\ UNCHANGED <<calls, notGamesVars>>

\* A promise of eventsBuffer.drain() resolves: process.exit(0).
GDrained ==
    /\ world.ah.exited = "no"
    /\ NoTick
    /\ world.ah.draining
    /\ world' = [world EXCEPT !.ah.exited = "gracefully"]
    /\ UNCHANGED <<runners, calls, notGamesVars>>

\* A step of the manager and its runners; nothing runs once the process has
\* exited.
GWhileAlive ==
    /\ world.ah.exited = "no"
    /\ NextGames

NextShutdown ==
    \/ GWhileAlive
    \/ GShutdown
    \/ GDrained

NextTimeout ==
    \/ NextGames
    \/ GTick
    \/ \E b \in BattleIds : GGameTimeout(b)

----------------------------------------------------------------------------
(* EventsBuffer (eventsBuffer.ts, src/unnamed/part_013 lines 148-326).     *)
(* Times are in microseconds; Date.now() is in milliseconds.               *)

\* How many events are pushed, and how far Date.now() advances.
MaxPushes == 3
MaxNow == 3

\* The maxAge values the buffer is constructed with (microseconds):
\* maxUpdatesSubscriptionAgeSeconds has no minimum in the configuration schema.
MaxAges == {0, 1, 2000}

Max(a, b) == IF a >= b THEN a ELSE b

\* The while loop of binarySearch; pred[n] is predicate(n).
RECURSIVE BinarySearchLoop(_, _, _)
BinarySearchLoop(from, len, pred) ==
    IF len > 0
    THEN LET off == len \div 2
         IN  IF pred[from + off]
             THEN BinarySearchLoop(from, off, pred)
             ELSE BinarySearchLoop(from + off + 1, len - (off + 1), pred)
    ELSE from

BinarySearch(from, to, pred) == BinarySearchLoop(from, to - from, pred)

\* (n) => this.events.getElementByPos(n).time <= t, over the positions of the
\* deque; position n of the deque is element n + 1 of the sequence, the front
\* (the newest event) first.
NotNewerThan(events, t) ==
    [n \in 0..(Len(events) - 1) |-> events[n + 1].time <= t]

\* Deque.cut(pos): keeps positions 0..pos, clears the deque when pos < 0.
Cut(events, pos) ==
    IF pos < 0 THEN <<>> ELSE SubSeq(events, 1, pos + 1)

\* new EventsBuffer(maxAge): loop is where the pusher's async function stands:
\* not started ("none"), queued with nextTick ("tick"), or awaiting the promise
\* of a callback invocation ("await").
NewEventsBuffer ==
    [callback |-> FALSE, pusherRunning |-> FALSE, pusherEventsIdx |-> 0,
     lastDropTime |-> 0, events |-> <<>>, loop |-> "none"]

DroppingFrequency(e) == e.maxAge \div 10

\* Mutant of startPusher: starts a loop although one is running.
StartPusherAgain(b, fromIdx) ==
    IF ~b.callback
    THEN b
    ELSE [b EXCEPT !.pusherEventsIdx = fromIdx,
                   !.pusherRunning = TRUE,
                   !.loop = "tick"]

StartPusher(b, fromIdx) ==
    IF b.pusherRunning \/ ~b.callback
    THEN b
    ELSE [b EXCEPT !.pusherEventsIdx = fromIdx,
                   !.pusherRunning = TRUE,
                   !.loop = "tick"]

\* maybeDropOlderThen without the `if (this.pusherRunning)` of lines 304-306.
MaybeDropUndelivered(b, e, after) ==
    IF after > b.lastDropTime + DroppingFrequency(e)
    THEN LET pos == BinarySearch(0, Len(b.events),
                                 NotNewerThan(b.events, after)) - 1
         IN  [b EXCEPT !.events = Cut(@, pos), !.lastDropTime = after]
    ELSE b

MaybeDropOlderThen(b, e, after) ==
    IF after > b.lastDropTime + DroppingFrequency(e)
    THEN LET pos == BinarySearch(0, Len(b.events),
                                 NotNewerThan(b.events, after)) - 1
             keep == IF b.pusherRunning
                     THEN Max(pos, b.pusherEventsIdx)
                     ELSE pos
         IN  [b EXCEPT !.events = Cut(@, keep), !.lastDropTime = after]
    ELSE b

\* The timestamp push gives to the event.
PushTime(b, e) ==
    LET time == e.now * 1000
    IN  IF b.events # <<>> /\ Head(b.events).time >= time
        THEN Head(b.events).time + 1
        ELSE time

Push(b, e, event) ==
    LET time == PushTime(b, e)
        b1 == [b EXCEPT !.events = <<[time |-> time, event |-> event]>> \o @,
                        !.pusherEventsIdx = @ + 1]
    IN  MaybeDropOlderThen(StartPusher(b1, 0), e, time - e.maxAge)

\* subscribe with the second test reading `<=`.
SubscribeStrict(b, e, since) ==
    IF b.callback
    THEN [b |-> b, res |-> "callback_already_set"]
    ELSE IF since <= e.now * 1000 - e.maxAge
    THEN [b |-> b, res |-> "too_far_in_the_past"]
    ELSE LET b1 == [b EXCEPT !.callback = TRUE]
             subStartIdx == BinarySearch(0, Len(b.events),
                                         NotNewerThan(b.events, since)) - 1
         IN  [b |-> IF subStartIdx >= 0 THEN StartPusher(b1, subStartIdx)
                    ELSE b1,
              res |-> "ok"]

\* subscribe(since, callback): the buffer it leaves and how it returns.
Subscribe(b, e, since) ==
    IF b.callback
    THEN [b |-> b, res |-> "callback_already_set"]
    ELSE IF since < e.now * 1000 - e.maxAge
    THEN [b |-> b, res |-> "too_far_in_the_past"]
    ELSE LET b1 == [b EXCEPT !.callback = TRUE]
             subStartIdx == BinarySearch(0, Len(b.events),
                                         NotNewerThan(b.events, since)) - 1
         IN  [b |-> IF subStartIdx >= 0 THEN StartPusher(b1, subStartIdx)
                    ELSE b1,
              res |-> "ok"]

Unsubscribe(b) == [b EXCEPT !.callback = FALSE]

\* One turn of the pusher's loop, entered from nextTick or on the resolution of
\* the awaited promise: it invokes the installed callback on the event at
\* pusherEventsIdx, or leaves the loop.
PusherGoesOn(b) == b.pusherEventsIdx >= 0 /\ b.callback

\* getElementByPos throws a RangeError for a position outside the deque, which
\* rejects the promise of the loop's async function.
PusherTurn(b) ==
    IF PusherGoesOn(b)
    THEN IF b.pusherEventsIdx >= Len(b.events)
         THEN [b EXCEPT !.loop = "thrown"]
         ELSE [b EXCEPT !.pusherEventsIdx = @ - 1, !.loop = "await"]
    ELSE [b EXCEPT !.pusherRunning = FALSE, !.loop = "none"]

----------------------------------------------------------------------------
(* SpecBuffer: one EventsBuffer, its callers and its pusher.               *)

RECURSIVE Reverse(_)
Reverse(seq) ==
    IF seq = <<>> THEN <<>> ELSE Append(Reverse(Tail(seq)), Head(seq))

IsPrefix(a, b) == Len(a) <= Len(b) /\ SubSeq(b, 1, Len(a)) = a

NewerThan(ev, since) == ev.time > since

\* The stored events with time > since, the oldest first.
StoredSince(b, since) ==
    LET Newer(ev) == NewerThan(ev, since)
    IN  Reverse(SelectSeq(b.events, Newer))

\* The `since` values a subscriber asks for.
SinceChoices ==
    {0, env.now * 1000 - env.maxAge - 1, env.now * 1000 - env.maxAge}
        \cup {eb.events[i].time : i \in 1..Len(eb.events)}

\* The buffer as constructed with maxAge, before any call.  obs: the timestamp
\* and the clock of every push; and, for the subscription in force, its since,
\* the events it is to receive, the events the callback was invoked with and
\* how many events had been pushed when it began; flying is the timestamp
\* of the event whose callback invocation is in flight, 0 with none in flight
\* (SpecSubscriber keeps these two, the other specifications leave them at
\* NotCounted).
NotCounted == -1

NewObs ==
    [pushLog |-> <<>>, since |-> 0, expected |-> <<>>,
     delivered |-> <<>>, attachedAt |-> NotCounted, inFlight |-> 0,
     flying |-> NotCounted,
     lastSubscribe |-> [since |-> 0, now |-> 0, res |-> "none"]]

BufferMadeWith(maxAge) ==
    /\ eb = NewEventsBuffer
    /\ env = [now |-> 1, maxAge |-> maxAge]
    /\ obs = NewObs

InitBufferVars == \E maxAge \in MaxAges : BufferMadeWith(maxAge)

\* Date.now() moves on.
BAdvanceClock ==
    /\ env.now < MaxNow
    /\ env' = [env EXCEPT !.now = @ + 1]
    /\ UNCHANGED <<eb, obs, notBufferVars>>

BPush ==
    /\ Len(obs.pushLog) < MaxPushes
    /\ LET event == Len(obs.pushLog) + 1
           time == PushTime(eb, env)
       IN  /\ eb' = Push(eb, env, event)
           /\ obs' = [obs EXCEPT
                        !.pushLog = Append(@, [time |-> time,
                                               now |-> env.now * 1000]),
                        !.expected = IF eb.callback
                                     THEN Append(@, [time |-> time,
                                                     event |-> event])
                                     ELSE @]
    /\ UNCHANGED <<env, notBufferVars>>

BSubscribe ==
    /\ \E since \in SinceChoices :
          LET r == Subscribe(eb, env, since)
              last == [since |-> since, now |-> env.now * 1000, res |-> r.res]
          IN  /\ eb' = r.b
              /\ obs' = IF r.res = "ok"
                        THEN [obs EXCEPT !.since = since,
                                         !.expected = StoredSince(eb, since),
                                         !.delivered = <<>>,
                                         !.attachedAt =
                                             IF @ = NotCounted THEN @
                                             ELSE Len(obs.pushLog),
                                         !.lastSubscribe = last]
                        ELSE [obs EXCEPT !.lastSubscribe = last]
    /\ UNCHANGED <<env, notBufferVars>>

BUnsubscribe ==
    /\ eb.callback
    /\ eb' = Unsubscribe(eb)
    /\ obs' = [obs EXCEPT !.since = 0, !.expected = <<>>, !.delivered = <<>>,
                          !.attachedAt = IF @ = NotCounted THEN @ ELSE 0]
    /\ UNCHANGED <<env, notBufferVars>>

\* A turn of the pusher's loop, and the invocation of the callback it makes.
\* obs.inFlight counts the promises of callback invocations that have not
\* resolved: the turn that follows a resolution takes one off, an invocation
\* adds one.
PusherActs ==
    /\ eb' = PusherTurn(eb)
    /\ LET resolved == IF eb.loop = "await" THEN 1 ELSE 0
       IN  obs' = IF eb'.loop = "await"
                  THEN [obs EXCEPT !.delivered =
                           Append(@, eb.events[eb.pusherEventsIdx + 1]),
                                   !.inFlight = @ - resolved + 1,
                                   !.flying =
                                       IF @ = NotCounted THEN @
                                       ELSE eb.events[eb.pusherEventsIdx + 1].time]
                  ELSE [obs EXCEPT !.inFlight = @ - resolved,
                                   !.flying = IF @ = NotCounted THEN @ ELSE 0]
    /\ UNCHANGED <<env, notBufferVars>>

\* The nextTick callback of startPusher runs.
BPusherTick == eb.loop = "tick" /\ PusherActs

\* The promise the callback returned resolves.
BCallbackDone == eb.loop = "await" /\ PusherActs

NextBuffer ==
    \/ BAdvanceClock
    \/ BPush
    \/ BSubscribe
    \/ BUnsubscribe
    \/ BPusherTick
    \/ BCallbackDone


----------------------------------------------------------------------------
(* MultiIndex (multiIndex.ts, src/unnamed/part_024 lines 1-105) and         *)
(* Autohost.addPlayer (src/src/autohost.ts).                               *)

\* The userIds and names the lobby uses, and how many sends may be pending.
NumUserIds == 4
NumNames == 3
MaxPendingSends == 2

UserIds == 1..NumUserIds
Names == 1..NumNames

\* The maps of a MultiIndex<PlayerIds>, one per key, from a value to the index
\* key stored under it.
NewMultiIndex ==
    [userId |-> <<>>, name |-> <<>>, playerNumber |-> <<>>]

MiKeys == {"userId", "name", "playerNumber"}

MiHas(m, k, v) == v \in DOMAIN m[k]

MiHasAny(m, idx) == \E k \in MiKeys : MiHas(m, k, idx[k])

\* hasAll looks the key up in the first map only, which is userId's.
MiHasAll(m, idx) ==
    IF MiHas(m, "userId", idx.userId)
    THEN \A k \in MiKeys : m.userId[idx.userId][k] = idx[k]
    ELSE FALSE

\* set without its hasAny test: the key is stored over whatever holds one of
\* its values.
MiSetUnchecked(m, idx) ==
    IF MiHasAll(m, idx)
    THEN [m |-> m, res |-> "false"]
    ELSE [m |-> [k \in MiKeys |->
                   [v \in (DOMAIN m[k]) \cup {idx[k]} |->
                      IF v = idx[k] THEN idx ELSE m[k][v]]],
          res |-> "true"]

\* set: the index it leaves and whether it returned true, false or threw.
MiSet(m, idx) ==
    IF MiHasAll(m, idx)
    THEN [m |-> m, res |-> "false"]
    ELSE IF MiHasAny(m, idx)
    THEN [m |-> m, res |-> "throws"]
    ELSE [m |-> [k \in MiKeys |->
                   [v \in (DOMAIN m[k]) \cup {idx[k]} |->
                      IF v = idx[k] THEN idx ELSE m[k][v]]],
          res |-> "true"]

MiDelete(m, k, v) ==
    IF ~MiHas(m, k, v)
    THEN m
    ELSE LET idx == m[k][v]
         IN  [i \in MiKeys |->
                [x \in (DOMAIN m[i]) \ {idx[i]} |-> m[i][x]]]

MiSize(m) == Cardinality(DOMAIN m.userId)

\* addPlayer up to its await of sendPacket: the index it leaves, whether it
\* threw (invalid_request, the Error of MultiIndex.set, or the
\* PacketSerializeError of serializeCommandPacket) or is sending, and whether
\* the userId was new to the battle.  serializes says whether
\* serializeCommandPacket accepts the name and the password of the request.
AddPlayer(m, userId, name, serializes) ==
    LET known == MiHas(m, "userId", userId)
    IN  IF known /\ m.userId[userId].name # name
        THEN [m |-> m, res |-> "invalid_request", isNew |-> FALSE]
        ELSE IF ~known /\ MiHas(m, "name", name)
        THEN [m |-> m, res |-> "invalid_request", isNew |-> FALSE]
        ELSE IF known
        THEN [m |-> m,
              res |-> IF serializes THEN "sending" ELSE "serialize_error",
              isNew |-> FALSE]
        ELSE LET set == MiSet(m, [name |-> name, userId |-> userId,
                                  playerNumber |-> MiSize(m)])
             IN  [m |-> set.m,
                  res |-> IF set.res = "throws" THEN "error"
                          ELSE IF serializes THEN "sending"
                          ELSE "serialize_error",
                  isNew |-> TRUE]

\* The catch block of addPlayer.
AddPlayerSendFailed(m, send) ==
    IF send.isNew THEN MiDelete(m, "userId", send.userId) ELSE m

\* How long a userIds list of specPlayers is, and how many specPlayers loops
\* run at once.
MaxSpecList == 2
MaxSpecLoops == 1

\* The userIds lists of specPlayers requests.
SpecLists ==
    UNION {[1..n -> UserIds] : n \in 1..MaxSpecList}

\* getPlayerName of a battle that has a player index: the name, or that it
\* throws invalid_request ('Player not in battle').
GetPlayerName(m, userId) ==
    IF MiHas(m, "userId", userId)
    THEN [ok |-> TRUE, name |-> m.userId[userId].name]
    ELSE [ok |-> FALSE, name |-> 0]

\* specPlayers, had it resolved each name inside its loop: the packets of the
\* userIds before the first unknown one are sent.
SpecPlayersLazy(m, userIds) ==
    LET known(i) == GetPlayerName(m, userIds[i]).ok
        n == IF \A i \in 1..Len(userIds) : known(i)
             THEN Len(userIds)
             ELSE (CHOOSE i \in 1..Len(userIds) :
                      ~known(i) /\ \A j \in 1..(i - 1) : known(j)) - 1
    IN  [res |-> IF n = 0 THEN "invalid_request" ELSE "sending",
         packets |-> [i \in 1..n |-> GetPlayerName(m, userIds[i]).name]]

\* specPlayers up to its first await: req.userIds.map(getPlayerName) runs
\* before the loop, so a throw of getPlayerName comes before any send.  packets
\* are the names of the spec packets the loop is to send, in order.
SpecPlayersCall(m, userIds) ==
    IF \E i \in 1..Len(userIds) : ~GetPlayerName(m, userIds[i]).ok
    THEN [res |-> "invalid_request", packets |-> <<>>]
    ELSE [res |-> "sending",
          packets |-> [i \in 1..Len(userIds) |->
                         GetPlayerName(m, userIds[i]).name]]

----------------------------------------------------------------------------
(* SpecPlayers: the addPlayer requests of one started battle.              *)

\* The index Autohost.start builds from a start request with the players
\* 1..n, numbered in order.
RECURSIVE StartPlayers(_)
StartPlayers(n) ==
    IF n = 0
    THEN NewMultiIndex
    ELSE MiSet(StartPlayers(n - 1),
               [userId |-> n, name |-> n, playerNumber |-> n - 1]).m

\* Autohost.start stored the players of the start request, numbered in order:
\* here one player.
InitPlayersVars ==
    /\ players = MiSet(NewMultiIndex,
                       [userId |-> 1, name |-> 1, playerNumber |-> 0]).m
    /\ sends = {}
    /\ adds = [last |-> [userId |-> 0, name |-> 0, res |-> "none"],
               rolledBack |-> {}]
    /\ specs = [loops |-> {},
                last |-> [len |-> 0, firstKnown |-> FALSE, allKnown |-> FALSE,
                          res |-> "none", sent |-> 0]]

\* An autohost/addPlayer request arrives.
PAddPlayer(userId, name, serializes) ==
    LET a == AddPlayer(players, userId, name, serializes)
        send == [userId |-> userId, name |-> name, isNew |-> a.isNew]
    IN  /\ a.res = "sending" => Cardinality(sends \cup {send}) <= MaxPendingSends
        /\ players' = a.m
        /\ sends' = IF a.res = "sending" THEN sends \cup {send} ELSE sends
        /\ adds' = [adds EXCEPT !.last = [userId |-> userId, name |-> name,
                                          res |-> a.res]]
        /\ UNCHANGED <<specs, notPlayerVars>>

\* The send of an adduser packet succeeded.
PSendOk(send) ==
    /\ sends' = sends \ {send}
    /\ UNCHANGED <<players, adds, specs, notPlayerVars>>

\* The send of an adduser packet failed.
PSendFailed(send) ==
    /\ players' = AddPlayerSendFailed(players, send)
    /\ sends' = sends \ {send}
    /\ adds' = IF send.isNew
               THEN [adds EXCEPT !.rolledBack = @ \cup {send.name}]
               ELSE adds
    /\ UNCHANGED <<specs, notPlayerVars>>

\* An autohost/specPlayers request arrives: the names are resolved, and the
\* first packet, if any, is handed to sendPacket.
PSpecPlayers(userIds) ==
    LET c == SpecPlayersCall(players, userIds)
    IN  /\ c.packets # <<>> =>
              Cardinality(specs.loops \cup {c.packets}) <= MaxSpecLoops
        /\ specs' = [loops |-> IF c.packets # <<>>
                               THEN specs.loops \cup {c.packets}
                               ELSE specs.loops,
                     last |-> [len |-> Len(userIds),
                               firstKnown |->
                                   MiHas(players, "userId", userIds[1]),
                               allKnown |->
                                   \A i \in 1..Len(userIds) :
                                      MiHas(players, "userId", userIds[i]),
                               res |-> c.res,
                               sent |-> IF c.packets # <<>> THEN 1 ELSE 0]]
        /\ UNCHANGED <<players, sends, adds, notPlayerVars>>

\* The send of a spec packet succeeded: the loop sends the next one or ends.
PSpecSendOk(loop) ==
    /\ specs' = [specs EXCEPT !.loops =
                    IF Tail(loop) # <<>>
                    THEN (@ \ {loop}) \cup {Tail(loop)}
                    ELSE @ \ {loop}]
    /\ UNCHANGED <<players, sends, adds, notPlayerVars>>

\* The send of a spec packet failed: specPlayers throws out of its loop.
PSpecSendFailed(loop) ==
    /\ specs' = [specs EXCEPT !.loops = @ \ {loop}]
    /\ UNCHANGED <<players, sends, adds, notPlayerVars>>

NextPlayers ==
    \/ \E userId \in UserIds, name \in Names, serializes \in BOOLEAN :
          PAddPlayer(userId, name, serializes)
    \/ \E send \in sends : PSendOk(send)
    \/ \E send \in sends : PSendFailed(send)

\* The specPlayers requests of one started battle.
NextSpectators ==
    \/ \E userIds \in SpecLists : PSpecPlayers(userIds)
    \/ \E loop \in specs.loops : PSpecSendOk(loop)
    \/ \E loop \in specs.loops : PSpecSendFailed(loop)

----------------------------------------------------------------------------
(* callTachyonAutohost (tachyonTypes.ts, src/src/engineRunner.ts lines     *)
(* 371-644).                                                               *)

\* How many message ids the lobby uses.
NumMessageIds == 2

MessageIds == 1..NumMessageIds

\* tachyonMeta.schema.actors.autohost.request.receive: the commands of the
\* switch of callTachyonAutohost.
AutohostCommands ==
    {"autohost/start", "autohost/kill", "autohost/addPlayer",
     "autohost/kickPlayer", "autohost/mutePlayer", "autohost/specPlayers",
     "autohost/sendCommand", "autohost/sendMessage",
     "autohost/subscribeUpdates"}

\* The commandIds of the envelopes: the registered ones and a stranger.
CommandIds == AutohostCommands \cup {"autohost/killss"}

MessageTypes == {"request", "response", "event"}

\* The reasons every command may fail with, and those of autohost/start.
CommonReasons == {"internal_error", "invalid_request", "command_unimplemented"}

StartReasons == {"battle_already_exists", "engine_version_not_available"}

\* tachyonMeta.schema.failedReasons[commandId]
FailedReasons(c) ==
    IF c = "autohost/start"
    THEN CommonReasons \cup StartReasons
    ELSE CommonReasons

\* What the adapter's method does when it is called: it returns, it throws a
\* TachyonError with some reason, or it throws another Error.
AdapterOutcomes ==
    {[kind |-> "returns", reason |-> "none"],
     [kind |-> "Error", reason |-> "none"]}
      \cup {[kind |-> "TachyonError", reason |-> r] :
                r \in CommonReasons \cup StartReasons}

\* createTachyonResponseOk
CreateTachyonResponseOk(req) ==
    [type |-> "response", status |-> "success", commandId |-> req.commandId,
     messageId |-> req.messageId, reason |-> "none", details |-> FALSE]

\* createTachyonResponseFail; details tells whether details were given.
CreateTachyonResponseFail(req, reason, details) ==
    [type |-> "response", status |-> "failed", commandId |-> req.commandId,
     messageId |-> req.messageId, reason |-> reason, details |-> details]

\* No response: the promise is not settled yet (type "none") or it rejected
\* (type "rejects").
NoResponse(t) ==
    [type |-> t, status |-> "none", commandId |-> "none", messageId |-> 0,
     reason |-> "none", details |-> FALSE]

\* The catch block, had it passed on the reason of every TachyonError.
ResponseForErrorAnyReason(req, error) ==
    IF error.kind = "TachyonError"
    THEN CreateTachyonResponseFail(req, error.reason, TRUE)
    ELSE CreateTachyonResponseFail(req, "internal_error", FALSE)

\* The catch block of callTachyonAutohost.
ResponseForError(req, error) ==
    IF /\ error.kind = "TachyonError"
       /\ req.commandId \in AutohostCommands
       /\ error.reason \in FailedReasons(req.commandId)
    THEN CreateTachyonResponseFail(req, error.reason, TRUE)
    ELSE CreateTachyonResponseFail(req, "internal_error", FALSE)

\* callTachyonAutohost(req, autohost): valid is what the validator of the
\* command says of req, adapter is what the adapter's method does if called.
\* The result is the response the promise resolves with, or that it rejects,
\* and whether the adapter's method was called.
CallTachyonAutohost(req, valid, adapter) ==
    IF req.type # "request"
    THEN [res |-> NoResponse("rejects"), invoked |-> FALSE]
    ELSE IF req.commandId \notin AutohostCommands
    THEN [res |-> CreateTachyonResponseFail(req, "command_unimplemented", TRUE),
          invoked |-> FALSE]
    ELSE IF ~valid
    THEN [res |-> ResponseForError(req, [kind |-> "TachyonError",
                                          reason |-> "invalid_request"]),
          invoked |-> FALSE]
    ELSE IF adapter.kind = "returns"
    THEN [res |-> CreateTachyonResponseOk(req), invoked |-> TRUE]
    ELSE [res |-> ResponseForError(req, adapter), invoked |-> TRUE]

\* No envelope was handed over yet.
NoRequest == [type |-> "none", messageId |-> 0, commandId |-> "none"]

InitCallVars ==
    call = [req |-> NoRequest,
            valid |-> FALSE,
            adapter |-> [kind |-> "returns", reason |-> "none"],
            res |-> NoResponse("none"), invoked |-> FALSE]

\* The client hands an envelope to callTachyonAutohost and awaits the response.
CCall(req, valid, adapter) ==
    /\ LET c == CallTachyonAutohost(req, valid, adapter)
       IN  call' = [req |-> req, valid |-> valid, adapter |-> adapter,
                    res |-> c.res, invoked |-> c.invoked]
    /\ UNCHANGED notCallVars

NextCall ==
    \E t \in MessageTypes, m \in MessageIds, c \in CommandIds,
       valid \in BOOLEAN, adapter \in AdapterOutcomes :
        CCall([NoRequest EXCEPT !.type = t, !.messageId = m, !.commandId = c],
              valid, adapter)

----------------------------------------------------------------------------
(* EngineVersionsManagerImpl: src/src/engineVersions.ts                    *)

\* A directory name is the sequence of its characters, so that
\* version.startsWith('.') and version === '' are computed.  The watcher
\* reports the root of engines/ as '', the installer's .downloads and
\* .tmp-install-<version>-<uuid> directories, and the engine versions.
RootEntry == <<>>
TempEntry == <<".", "t">>
NumVersions == 2
EngineVersionNames == {<<"v", n>> : n \in 1..NumVersions}
WatchedEntries == {RootEntry, TempEntry} \cup EngineVersionNames

\* How many `versions` events and how many install jobs a behaviour holds.
MaxVersionEvents == 3
MaxInstalls == 3

StartsWith(s, c) == Len(s) > 0 /\ s[1] = c

\* array.includes / indexOf / splice(index, 1) on the engineVersions array.
Includes(list, x) == \E i \in 1..Len(list) : list[i] = x
Without(list, x) == SelectSeq(list, LAMBDA y : y # x)

\* A new EngineVersionsManagerImpl.  Besides the fields the record holds
\*   emitted  the lists handed to the `versions` listeners, in order
\*   dirs     the entries the watcher reported as present
\*   jobs     for each version the stages its unsettled install jobs stand at
\*   started  how many install jobs were started for each version
\*   log      what the last installEngine or job settlement logged
NewVersionsManager ==
    [engineVersions |-> <<>>, ready |-> FALSE, installInFlight |-> {},
     emitted |-> <<>>, dirs |-> {},
     jobs |-> [v \in EngineVersionNames |-> <<>>],
     started |-> [v \in EngineVersionNames |-> 0],
     log |-> "none"]

EmitVersions(m) == [m EXCEPT !.emitted = Append(@, m.engineVersions)]

\* this.watcher.on('ready', ...)
OnWatcherReady(m) == EmitVersions([m EXCEPT !.ready = TRUE])

\* Mutant: addEngineVersion without the startsWith('.') test.
AddEngineVersionHidden(m, version) ==
    IF version = <<>>
    THEN m
    ELSE IF ~Includes(m.engineVersions, version)
    THEN LET m1 == [m EXCEPT !.engineVersions = Append(@, version)]
         IN  IF m.ready THEN EmitVersions(m1) ELSE m1
    ELSE m

AddEngineVersion(m, version) ==
    IF version = <<>> \/ StartsWith(version, ".")
    THEN m
    ELSE IF ~Includes(m.engineVersions, version)
    THEN LET m1 == [m EXCEPT !.engineVersions = Append(@, version)]
         IN  IF m.ready THEN EmitVersions(m1) ELSE m1
    ELSE m

RemoveEngineVersion(m, version) ==
    IF StartsWith(version, ".")
    THEN m
    ELSE IF Includes(m.engineVersions, version)
    THEN LET m1 == [m EXCEPT !.engineVersions = Without(@, version)]
         IN  IF m.ready THEN EmitVersions(m1) ELSE m1
    ELSE m

\* The awaits of installEngineImpl, in order; a job stands at the one it awaits.
InstallStages == <<"isEngineInstalled", "findEngineRelease", "mkdir",
                   "downloadFile", "run7zipExtract", "rename", "cleanup">>

StageAfter(stage) ==
    InstallStages[1 + CHOOSE i \in 1..Len(InstallStages) : InstallStages[i] = stage]

\* Mutant: installEngine without the installInFlight.has test.
InstallEngineAgain(m, version) ==
    [m EXCEPT !.installInFlight = @ \cup {version},
              !.jobs[version] = Append(@, [stage |-> "isEngineInstalled",
                                           failed |-> FALSE]),
              !.started[version] = @ + 1,
              !.log = "starting"]

\* installEngine: the job runs up to its first await (the access() of
\* isEngineInstalled); .catch and .finally are attached and the marker is set.
InstallEngine(m, version) ==
    IF version \in m.installInFlight
    THEN [m EXCEPT !.log = "engine install already in progress"]
    ELSE [m EXCEPT !.installInFlight = @ \cup {version},
                   !.jobs[version] = Append(@, [stage |-> "isEngineInstalled",
                                                failed |-> FALSE]),
                   !.started[version] = @ + 1,
                   !.log = "starting"]

RemoveAt(list, i) == SubSeq(list, 1, i - 1) \o SubSeq(list, i + 1, Len(list))

\* The job settles: .catch logs a rejection, .finally removes the marker.
SettleInstall(m, version, i, logged) ==
    [m EXCEPT !.jobs[version] = RemoveAt(@, i),
              !.installInFlight = @ \ {version},
              !.log = logged]

\* The await the i-th job of the version stands at completes, with success
\* or with an error, and installEngineImpl runs on to its next await.
InstallStep(m, version, i, ok) ==
    LET job == m.jobs[version][i]
        goOn == [m EXCEPT !.jobs[version][i].stage = StageAfter(job.stage)]
        toCleanup == [m EXCEPT !.jobs[version][i] =
                                   [stage |-> "cleanup", failed |-> TRUE]]
    IN  CASE job.stage = "isEngineInstalled" ->
                 IF ok THEN SettleInstall(m, version, i, "engine already installed")
                       ELSE goOn
          [] job.stage \in {"findEngineRelease", "mkdir"} ->
                 IF ok THEN goOn
                       ELSE SettleInstall(m, version, i, "engine install failed")
          [] job.stage \in {"downloadFile", "run7zipExtract", "rename"} ->
                 IF ok THEN goOn ELSE toCleanup
          [] job.stage = "cleanup" ->
                 IF ok /\ ~job.failed
                 THEN SettleInstall(m, version, i, "engine install completed")
                 ELSE SettleInstall(m, version, i, "engine install failed")

InitVersionVars == evm = NewVersionsManager

\* The watcher reports a directory under engines/, present or not before.
VAddDir(entry) ==
    /\ Len(evm.emitted) < MaxVersionEvents
    /\ evm' = [AddEngineVersion(evm, entry) EXCEPT !.dirs = @ \cup {entry}]
    /\ UNCHANGED notVersionVars

VUnlinkDir(entry) ==
    /\ Len(evm.emitted) < MaxVersionEvents
    /\ evm' = [RemoveEngineVersion(evm, entry) EXCEPT !.dirs = @ \ {entry}]
    /\ UNCHANGED notVersionVars

\* The watcher finished its initial scan; it reports that once.
VReady ==
    /\ ~evm.ready
    /\ evm' = OnWatcherReady(evm)
    /\ UNCHANGED notVersionVars

NextRegistry ==
    \/ \E entry \in WatchedEntries : VAddDir(entry) \/ VUnlinkDir(entry)
    \/ VReady

InstallsStarted(m) ==
    LET RECURSIVE Sum(_)
        Sum(S) == IF S = {} THEN 0
                  ELSE LET v == CHOOSE x \in S : TRUE
                       IN  m.started[v] + Sum(S \ {v})
    IN  Sum(EngineVersionNames)

\* An engineInstall request reaches installEngine.
VInstallEngine(version) ==
    /\ InstallsStarted(evm) < MaxInstalls
    /\ evm' = InstallEngine(evm, version)
    /\ UNCHANGED notVersionVars

\* An await of an install job completes.
VInstallStep(version, ok) ==
    /\ \E i \in 1..Len(evm.jobs[version]) : evm' = InstallStep(evm, version, i, ok)
    /\ UNCHANGED notVersionVars

NextInstall ==
    \E version \in EngineVersionNames :
        \/ VInstallEngine(version)
        \/ \E ok \in BOOLEAN : VInstallStep(version, ok)

----------------------------------------------------------------------------
(* TachyonClient (tachyonClient.ts, src/unnamed/part_013 lines 1-146) and   *)
(* the reconnect loop of main (main.ts, src/unnamed/part_010).              *)

\* The frames the lobby sends: text frames that parse as a request, a response
\* or an event, a binary frame, and a text frame parseTachyonMessage rejects.
Messages == {"request", "response", "event"}
Frames == Messages \cup {"binary", "garbage"}

\* new TachyonClient(opts): the constructor calls connect(), which awaits
\* getAccessToken (pc = "token").  ws is the WebSocket: none before it is
\* made, connecting, aborting (closed during the handshake: it will emit
\* 'error' and 'close', never 'open'), open, closing (its 'close' event is
\* due) and closed.
NewClient ==
    [state |-> "STARTING", pc |-> "token", ws |-> "none", out |-> <<>>]

\* ws.close(code) of the ws library.
WsClose(ws) ==
    CASE ws = "connecting" -> "aborting"
      [] ws = "open" -> "closing"
      [] OTHER -> ws

\* TachyonClient.close
TcClose(c) ==
    IF c.state = "CLOSED"
    THEN c
    ELSE Emit([c EXCEPT !.state = "CLOSED", !.ws = WsClose(@)], "close")

\* TachyonClient.handleError
TcHandleError(c) ==
    IF c.state = "CLOSED" THEN c ELSE TcClose(Emit(c, "error"))

\* connect() after getAccessToken resolved: the WebSocket is made and the
\* listeners are attached.
TcTokenOk(c) == [c EXCEPT !.pc = "done", !.ws = "connecting"]

\* connect() after getAccessToken rejected: connect().catch(handleError).
TcTokenFailed(c) == TcHandleError([c EXCEPT !.pc = "done"])

\* ws.on('open')
TcOnOpen(c) ==
    Emit([c EXCEPT !.state = "CONNECTED", !.ws = "open"], "connected")

\* ws.on('error'): the library closes the socket after it.
TcOnWsError(c) == TcHandleError([c EXCEPT !.ws = "closing"])

\* ws.on('close')
TcOnWsClose(c) == TcClose([c EXCEPT !.ws = "closed"])

\* ws.on('message')
TcOnMessage(c, frame) ==
    IF frame \in Messages
    THEN Emit(c, frame)
    ELSE TcClose([c EXCEPT !.ws = WsClose(@)])

\* TachyonClient.send: how the promise it returns settles.
TcSend(c) ==
    IF c.state # "CONNECTED"
    THEN "rejected"
    ELSE IF c.ws = "open" THEN "resolved" ELSE "rejected"

\* How many times the owner of the client calls close() and send(), and how
\* many frames the lobby sends.
MaxUserCalls == 2
MaxFrames == 2

\* What a listener of the client has seen once it also sees the events of
\* `out`: how many `close` and `error`, and whether a `connected`, a `message` or another
\* `close` came after a `close`.
RECURSIVE Watch(_, _)
Watch(seen, out) ==
    IF out = <<>>
    THEN seen
    ELSE LET ev == Head(out)
             s1 == CASE ev = "close" ->
                          [seen EXCEPT !.closes = @ + 1,
                                       !.afterClose = @ \/ seen.closes > 0]
                    [] ev = "connected" \/ ev \in Messages ->
                          [seen EXCEPT !.afterClose = @ \/ seen.closes > 0,
                                       !.connected = @ \/ ev = "connected"]
                    [] ev = "error" -> [seen EXCEPT !.errors = @ + 1]
                    [] OTHER -> seen
         IN  Watch(s1, Tail(out))

NewSeen ==
    [closes |-> 0, errors |-> 0, afterClose |-> FALSE, connected |-> FALSE,
     userCalls |-> 0, frames |-> 0, lastSend |-> "none",
     sentAfterClose |-> FALSE]

\* The loop of main before its first client.
NewSupervisor ==
    [nextReconnectDelay |-> 0, maxReconnectDelay |-> 0, phase |-> "off",
     pendingCur |-> 0, pendingOld |-> 0, clients |-> 0, crashed |-> FALSE]

InitLobbyVars ==
    lobby = [client |-> NewClient, seen |-> NewSeen, sup |-> NewSupervisor]

\* A callback of the client ran to completion.
ClientSettles(c) ==
    /\ lobby' = [lobby EXCEPT !.client = [c EXCEPT !.out = <<>>],
                              !.seen = Watch(@, c.out)]
    /\ UNCHANGED notLobbyVars

\* The owner calls close().
CClose ==
    /\ lobby.seen.userCalls < MaxUserCalls
    /\ \E c \in {TcClose(lobby.client)} :
          /\ lobby' = [lobby EXCEPT !.client = [c EXCEPT !.out = <<>>],
                                    !.seen = [Watch(@, c.out) EXCEPT
                                                 !.userCalls = @ + 1]]
    /\ UNCHANGED notLobbyVars

\* The owner calls send(msg).
CSend ==
    /\ lobby.seen.userCalls < MaxUserCalls
    /\ lobby' = [lobby EXCEPT !.seen =
                    [@ EXCEPT !.userCalls = @ + 1,
                              !.lastSend = TcSend(lobby.client),
                              !.sentAfterClose =
                                  @ \/ /\ lobby.seen.closes > 0
                                       /\ TcSend(lobby.client) = "resolved"]]
    /\ UNCHANGED notLobbyVars

CTokenOk == lobby.client.pc = "token" /\ ClientSettles(TcTokenOk(lobby.client))

CTokenFailed ==
    lobby.client.pc = "token" /\ ClientSettles(TcTokenFailed(lobby.client))

CWsOpen == lobby.client.ws = "connecting" /\ ClientSettles(TcOnOpen(lobby.client))

\* The handshake fails or is aborted, or the open connection breaks.
CWsError ==
    /\ lobby.client.ws \in {"connecting", "aborting", "open"}
    /\ ClientSettles(TcOnWsError(lobby.client))

\* The 'close' event of the socket: after an error or a close(), or because
\* the lobby closed the connection.
CWsClose ==
    /\ lobby.client.ws \in {"open", "closing"}
    /\ ClientSettles(TcOnWsClose(lobby.client))

CWsMessage(frame) ==
    /\ lobby.client.ws = "open"
    /\ lobby.seen.frames < MaxFrames
    /\ \E c \in {TcOnMessage(lobby.client, frame)} :
          /\ lobby' = [lobby EXCEPT !.client = [c EXCEPT !.out = <<>>],
                                    !.seen = [Watch(@, c.out) EXCEPT
                                                 !.frames = @ + 1]]
    /\ UNCHANGED notLobbyVars

NextClient ==
    \/ CClose
    \/ CSend
    \/ CTokenOk
    \/ CTokenFailed
    \/ CWsOpen
    \/ CWsError
    \/ CWsClose
    \/ \E frame \in Frames : CWsMessage(frame)

\* main (src/unnamed/part_010 lines 28-70): the reconnect loop.

Min(a, b) == IF a <= b THEN a ELSE b

\* const minReconnectDelay = 50
minReconnectDelay == 50

\* maxReconnectDelaySeconds of the configuration: the schema asks for a
\* number >= 1 and defaults to 30.
ReconnectCaps == {1, 30}

\* How many clients the loop makes.
MaxClients == 11

\* The loop at its first `await once(client, 'close')`.
StartSupervisor(seconds) ==
    [nextReconnectDelay |-> minReconnectDelay,
     maxReconnectDelay |-> seconds * 1000,
     phase |-> "waiting", pendingCur |-> 0, pendingOld |-> 0,
     clients |-> 1, crashed |-> FALSE]

\* client.on('connected')
SupOnConnected(sup) == [sup EXCEPT !.nextReconnectDelay = minReconnectDelay]

\* client.on('message'): a request starts callTachyonAutohost; responses and
\* events are dropped.
SupOnMessage(sup, type) ==
    IF type = "request" THEN [sup EXCEPT !.pendingCur = @ + 1] ELSE sup

\* once(client, 'close') rejected by an `error`: the catch block
SupOnceRejectedUncapped(sup) ==
    [sup EXCEPT !.phase = "sleeping",
                !.nextReconnectDelay = sup.nextReconnectDelay * 2]

SupOnceRejected(sup) ==
    [sup EXCEPT !.phase = "sleeping",
                !.nextReconnectDelay =
                    Min(sup.nextReconnectDelay * 2, sup.maxReconnectDelay)]

\* once(client, 'close') resolved by the `close`
SupOnceResolved(sup) == [sup EXCEPT !.phase = "sleeping"]

\* One event of the client reaches the listeners main attached.  An `error`
\* nobody listens to is thrown by emit.
SupOn(sup, ev) ==
    CASE ev = "connected" -> SupOnConnected(sup)
      [] ev \in Messages -> SupOnMessage(sup, ev)
      [] ev = "error" ->
            IF sup.phase = "waiting"
            THEN SupOnceRejected(sup)
            ELSE [sup EXCEPT !.crashed = TRUE]
      [] ev = "close" ->
            IF sup.phase = "waiting" THEN SupOnceResolved(sup) ELSE sup
      [] OTHER -> sup

RECURSIVE SupSees(_, _)
SupSees(sup, out) ==
    IF out = <<>> THEN sup ELSE SupSees(SupOn(sup, Head(out)), Tail(out))

\* `await setTimeout(nextReconnectDelay)` is over: the next turn of the loop
\* makes a client; the requests of the previous one go on.
SupWake(sup) ==
    [sup EXCEPT !.phase = "waiting", !.clients = @ + 1,
                !.pendingOld = @ + sup.pendingCur, !.pendingCur = 0]

\* The message listener after `await callTachyonAutohost(msg, autohost)`:
\* client.send(response), whose promise nobody awaits or catches; in Node 22
\* a rejection nobody handles ends the process.
SupSendResponse(sup, sent) ==
    IF sent = "rejected" THEN [sup EXCEPT !.crashed = TRUE] ELSE sup

SupervisorRuns == lobby.sup.phase # "off" /\ ~lobby.sup.crashed

\* A callback of the current client ran to completion, the listeners of main
\* and the continuation of the loop included.
SupSettles(c, frames) ==
    /\ lobby' = [client |-> [c EXCEPT !.out = <<>>],
                 seen |-> [Watch(lobby.seen, c.out) EXCEPT !.frames = @ + frames],
                 sup |-> SupSees(lobby.sup, c.out)]
    /\ UNCHANGED notLobbyVars

STokenOk ==
    /\ SupervisorRuns
    /\ lobby.client.pc = "token"
    /\ SupSettles(TcTokenOk(lobby.client), 0)

STokenFailed ==
    /\ SupervisorRuns
    /\ lobby.client.pc = "token"
    /\ SupSettles(TcTokenFailed(lobby.client), 0)

SWsOpen ==
    /\ SupervisorRuns
    /\ lobby.client.ws = "connecting"
    /\ SupSettles(TcOnOpen(lobby.client), 0)

SWsError ==
    /\ SupervisorRuns
    /\ lobby.client.ws \in {"connecting", "aborting", "open"}
    /\ SupSettles(TcOnWsError(lobby.client), 0)

SWsClose ==
    /\ SupervisorRuns
    /\ lobby.client.ws \in {"open", "closing"}
    /\ SupSettles(TcOnWsClose(lobby.client), 0)

SWsMessage(frame) ==
    /\ SupervisorRuns
    /\ lobby.client.ws = "open"
    /\ lobby.seen.frames < MaxFrames
    /\ SupSettles(TcOnMessage(lobby.client, frame), 1)

\* The timer of the loop fires.
SWake ==
    /\ SupervisorRuns
    /\ lobby.sup.phase = "sleeping"
    /\ lobby.sup.clients < MaxClients
    /\ lobby' = [client |-> NewClient, seen |-> NewSeen,
                 sup |-> SupWake(lobby.sup)]
    /\ UNCHANGED notLobbyVars

\* callTachyonAutohost resolves for a request of the current client.
SResponse ==
    /\ SupervisorRuns
    /\ lobby.sup.pendingCur > 0
    /\ lobby' = [lobby EXCEPT !.sup =
                    SupSendResponse([@ EXCEPT !.pendingCur = @ - 1],
                                    TcSend(lobby.client))]
    /\ UNCHANGED notLobbyVars

\* callTachyonAutohost resolves for a request of an earlier client, which is
\* closed.
SLateResponse ==
    /\ SupervisorRuns
    /\ lobby.sup.pendingOld > 0
    /\ lobby' = [lobby EXCEPT !.sup =
                    SupSendResponse([@ EXCEPT !.pendingOld = @ - 1],
                                    "rejected")]
    /\ UNCHANGED notLobbyVars

NextSupervisor ==
    \/ STokenOk
    \/ STokenFailed
    \/ SWsOpen
    \/ SWsError
    \/ SWsClose
    \/ \E frame \in Frames : SWsMessage(frame)
    \/ SWake
    \/ SResponse
    \/ SLateResponse

----------------------------------------------------------------------------
(* EngineInstaller.downloadAndVerifyArchive (src/src/engineInstaller.ts).   *)

\* engineDownloadMaxAttempts is an integer >= 1 (default 3) and
\* engineDownloadRetryBackoffBaseMs an integer >= 1000 (default 1000).
MaxAttemptsCfg == 3
BackoffBases == {1000, 1500}

\* Math.pow(2, n)
RECURSIVE Pow2(_)
Pow2(n) == IF n <= 0 THEN 1 ELSE 2 * Pow2(n - 1)

\* const maxAttempts = Math.max(1, config.engineDownloadMaxAttempts)
DlMaxAttempts(d) == Max(1, d.cfgAttempts)

\* const backoffMs = backoffBaseMs * Math.pow(2, attempt - 1)
BackoffMsOneMore(base, attempt) == Max(1, base) * Pow2(attempt)

BackoffMs(base, attempt) == Max(1, base) * Pow2(attempt - 1)

\* The call at its first downloadFile.  archive: a file is at targetPath;
\* waits: the arguments of the delay calls; lastError: the attempt and the
\* step that threw; result: how the promise of the call settled.
NoError == [attempt |-> 0, step |-> "none"]
StartDownload(attempts, base) ==
    [cfgAttempts |-> attempts, cfgBase |-> base, attempt |-> 1,
     pc |-> "download", archive |-> FALSE, waits |-> <<>>,
     lastError |-> NoError, result |-> "pending"]

InitInstallerVars == dl = StartDownload(MaxAttemptsCfg, 1000)

\* downloadFile resolved: the file is written; verifyArchiveChecksum starts.
DlDownloaded(d) == [d EXCEPT !.pc = "verify", !.archive = TRUE]

\* downloadFile or verifyArchiveChecksum threw: the catch block up to
\* `await fsPromises.rm`.  A download that failed may have left a file.
DlCaught(d, step, partial) ==
    [d EXCEPT !.pc = "rm",
              !.lastError = [attempt |-> d.attempt, step |-> step],
              !.archive = IF step = "download" THEN partial ELSE TRUE]

\* fsPromises.rm(targetPath, {force: true}) resolved: the rest of the catch
\* block, and after the last attempt the throw of lastError.
DlRemoved(d) ==
    IF d.attempt = DlMaxAttempts(d)
    THEN [d EXCEPT !.archive = FALSE, !.pc = "failed", !.result = "rejected"]
    ELSE [d EXCEPT !.archive = FALSE, !.pc = "delay",
                   !.waits = Append(@, BackoffMs(d.cfgBase, d.attempt))]

\* The timer of delay fired: attempt++ and the next downloadFile.
DlDelayed(d) == [d EXCEPT !.pc = "download", !.attempt = @ + 1]

\* verifyArchiveChecksum resolved: return.
DlVerified(d) == [d EXCEPT !.pc = "done", !.result = "resolved"]

DDownloadOk ==
    /\ dl.pc = "download"
    /\ dl' = DlDownloaded(dl)
    /\ UNCHANGED notInstallerVars

DDownloadFails ==
    /\ dl.pc = "download"
    /\ \E partial \in BOOLEAN : dl' = DlCaught(dl, "download", partial)
    /\ UNCHANGED notInstallerVars

DVerifyOk ==
    /\ dl.pc = "verify"
    /\ dl' = DlVerified(dl)
    /\ UNCHANGED notInstallerVars

DVerifyFails ==
    /\ dl.pc = "verify"
    /\ dl' = DlCaught(dl, "verify", TRUE)
    /\ UNCHANGED notInstallerVars

DRemoved ==
    /\ dl.pc = "rm"
    /\ dl' = DlRemoved(dl)
    /\ UNCHANGED notInstallerVars

DDelayOver ==
    /\ dl.pc = "delay"
    /\ dl' = DlDelayed(dl)
    /\ UNCHANGED notInstallerVars

NextDownload ==
    \/ DDownloadOk
    \/ DDownloadFails
    \/ DVerifyOk
    \/ DVerifyFails
    \/ DRemoved
    \/ DDelayOver

----------------------------------------------------------------------------
(* The specifications.                                                     *)

\* The default of maxUpdatesSubscriptionAgeSeconds, in microseconds.
DefaultMaxAge == 600 * 1000 * 1000

Init ==
    /\ InitRunnerVars
    /\ InitGamesVars
    /\ BufferMadeWith(DefaultMaxAge)
    /\ InitPlayersVars
    /\ InitCallVars
    /\ InitVersionVars
    /\ InitLobbyVars
    /\ InitInstallerVars

InitBuffer ==
    /\ InitRunnerVars
    /\ InitGamesVars
    /\ InitBufferVars
    /\ InitPlayersVars
    /\ InitCallVars
    /\ InitVersionVars
    /\ InitLobbyVars
    /\ InitInstallerVars

SpecRunner == Init /\ [][NextRunner]_vars

SpecGames == Init /\ [][NextGames]_vars

\* SpecGames with the promise of every start() call followed.
InitStarts ==
    /\ InitRunnerVars
    /\ runners = [b \in BattleIds |-> NewRunner]
    /\ world = NewWorld
    /\ calls = [NewCalls EXCEPT !.startPromise = [b \in BattleIds |-> "none"]]
    /\ BufferMadeWith(DefaultMaxAge)
    /\ InitPlayersVars
    /\ InitCallVars
    /\ InitVersionVars
    /\ InitLobbyVars
    /\ InitInstallerVars

SpecStarts == InitStarts /\ [][NextGames]_vars

\* The manager after battles 1..n were started and killed before their engine
\* started, one after the other.
HostedBefore(n) ==
    /\ runners = [b \in BattleIds |-> NewRunner]
    /\ world = [NewWorld EXCEPT !.gm.usedBattleIds = 1..n,
                                !.gm.lastPortOffset = n % MaxPortsUsed]
    /\ calls = [NewCalls EXCEPT !.exitEmitted = 1..n]

\* All battle ids but two were used before.
InitTimeout ==
    /\ InitRunnerVars
    /\ HostedBefore(NumBattleIds - 2)
    /\ BufferMadeWith(DefaultMaxAge)
    /\ InitPlayersVars
    /\ InitCallVars
    /\ InitVersionVars
    /\ InitLobbyVars
    /\ InitInstallerVars

SpecTimeout == InitTimeout /\ [][NextTimeout]_vars

SpecShutdown == Init /\ [][NextShutdown]_vars

SpecBuffer == InitBuffer /\ [][NextBuffer]_vars

\* SpecBuffer with the pushes of every subscription counted, under the ages
\* that let an event grow older than maxAge.
ShortAges == {a \in MaxAges : a < MaxNow}

InitSubscriber ==
    /\ InitRunnerVars
    /\ InitGamesVars
    /\ \E maxAge \in ShortAges :
          /\ eb = NewEventsBuffer
          /\ env = [now |-> 1, maxAge |-> maxAge]
          /\ obs = [NewObs EXCEPT !.attachedAt = 0, !.flying = 0]
    /\ InitPlayersVars
    /\ InitCallVars
    /\ InitVersionVars
    /\ InitLobbyVars
    /\ InitInstallerVars

SpecSubscriber == InitSubscriber /\ [][NextBuffer]_vars

SpecPlayers == Init /\ [][NextPlayers]_vars

\* A battle started with one to NumNames players, before any specPlayers.
InitSpectators ==
    /\ InitRunnerVars
    /\ InitGamesVars
    /\ BufferMadeWith(DefaultMaxAge)
    /\ \E n \in 1..NumNames : players = StartPlayers(n)
    /\ sends = {}
    /\ adds = [last |-> [userId |-> 0, name |-> 0, res |-> "none"],
               rolledBack |-> {}]
    /\ specs = [loops |-> {},
                last |-> [len |-> 0, firstKnown |-> FALSE, allKnown |-> FALSE,
                          res |-> "none", sent |-> 0]]
    /\ InitCallVars
    /\ InitVersionVars
    /\ InitLobbyVars
    /\ InitInstallerVars

SpecSpectators == InitSpectators /\ [][NextSpectators]_vars

SpecCall == Init /\ [][NextCall]_vars

SpecRegistry == Init /\ [][NextRegistry]_vars

SpecInstall == Init /\ [][NextInstall]_vars

SpecClient == Init /\ [][NextClient]_vars

InitSupervisor ==
    /\ InitRunnerVars
    /\ InitGamesVars
    /\ BufferMadeWith(DefaultMaxAge)
    /\ InitPlayersVars
    /\ InitCallVars
    /\ InitVersionVars
    /\ \E seconds \in ReconnectCaps :
          lobby = [client |-> NewClient, seen |-> NewSeen,
                   sup |-> StartSupervisor(seconds)]
    /\ InitInstallerVars

SpecSupervisor == InitSupervisor /\ [][NextSupervisor]_vars

InitDownload ==
    /\ InitRunnerVars
    /\ InitGamesVars
    /\ BufferMadeWith(DefaultMaxAge)
    /\ InitPlayersVars
    /\ InitCallVars
    /\ InitVersionVars
    /\ InitLobbyVars
    /\ \E attempts \in 1..MaxAttemptsCfg, base \in BackoffBases :
          dl = StartDownload(attempts, base)

SpecDownload == InitDownload /\ [][NextDownload]_vars

\* What the runtime guarantees: a queued nextTick callback runs, a socket that
\* was closed reports 'close', a spawn attempt ends in 'spawn' or 'error', and a
\* process that was sent SIGTERM (then SIGKILL) exits.
RSignalledExit == runner.sigterm /\ RProcessExit

FairRunner ==
    /\ WF_vars(RExitTick)
    /\ WF_vars(RUdpClosed)
    /\ WF_vars(RSpawned \/ RSpawnFailed)
    /\ WF_vars(RSignalledExit)

LiveSpecRunner == SpecRunner /\ FairRunner

\* The engine process has exited or was never spawned, and the UDP socket is
\* closed or was never opened.
RunnerReleased(r) ==
    /\ r.proc \in {"none", "dead", "failed"}
    /\ r.udpServer = "null"

\* C2: whatever close() calls, errors, process exits and socket closes happen,
\* the runner emits `exit` at most once, and its emission is queued or done only
\* while the engine process is gone (or was never spawned) and the UDP socket is
\* closed (or was never opened).
C2_ExitOnceAndOnlyWhenReleased ==
    /\ nEmitted["exit"] <= 1
    /\ (runner.exitTick \/ nEmitted["exit"] > 0) => RunnerReleased(runner)

\* C2 witness: `exit` was emitted after the engine ran and close() was called
\* more than once.
C2_Witness ==
    /\ nEmitted["exit"] = 1
    /\ runner.proc = "dead"
    /\ closeCalls = MaxCloseCalls

\* C3: a runner that was run, once close() was called on it or it reported a
\* fatal error, eventually emits `exit`.
C3_ExitEventuallyEmitted ==
    ((runner.state # "None" /\ (closeCalls > 0 \/ nEmitted["error"] > 0))
        ~> (nEmitted["exit"] = 1))

\* C3 witness: the start was interrupted by close() before the socket was bound
\* and the runner emitted `exit`.
C3_Witness ==
    /\ nEmitted["exit"] = 1
    /\ closeCalls > 0
    /\ runner.proc = "none"
    /\ runner.pc # "idle"

----------------------------------------------------------------------------
(* Claims about the manager and the adapter (SpecGames).                   *)

\* C1: for every battle id, at most one update of type engine_quit or
\* engine_crash is published to the lobby update stream, whatever packets of
\* the engine (repeated SERVER_QUIT included), `error` events and `exit` event
\* of the battle arrive.
C1_AtMostOneTerminalUpdate ==
    \A b \in BattleIds : world.ah.updates[b] <= 1

\* C4: the set of used battle ids never shrinks, and a start request with an id
\* in it fails with battle_already_exists and changes nothing, while the battle
\* of that id is starting or running and after it has exited.
C4_UsedBattleIdRejected ==
    /\ [](\A b \in world.gm.usedBattleIds :
            GmStart(world, b) = [w |-> world, res |-> "battle_already_exists"])
    /\ [][world.gm.usedBattleIds \subseteq world'.gm.usedBattleIds]_vars

\* C4 witness: one used id belongs to a battle that started and exited, another
\* to a battle that is held, and the manager has room for a battle, so the
\* check of the id is the one that rejects a request reusing either.
C4_Witness ==
    /\ \E b \in world.gm.usedBattleIds :
          /\ b \in calls.startEmitted \cap calls.exitEmitted
          /\ b \notin DOMAIN world.gm.games
    /\ \E b \in world.gm.usedBattleIds : b \in DOMAIN world.gm.games
    /\ ~TooManyBattles(world.gm)

\* C5: no two battles the manager holds own the same port offset.
C5_PortOffsetsDistinct ==
    \A a, b \in DOMAIN world.gm.games :
        a # b => world.gm.games[a].portOffset # world.gm.games[b].portOffset

\* C5 witness: battle 1 holds the last offset; battle 2 took offset 0 after the
\* cursor wrapped and has exited; the scan for battle 3 started at the cursor,
\* skipped the offset of battle 1 and wrapped to offset 0 again.
C5_Witness ==
    /\ DOMAIN world.gm.games = {1, 3}
    /\ 2 \in calls.exitEmitted
    /\ world.gm.games[1].portOffset = MaxPortsUsed - 1
    /\ world.gm.games[3].portOffset = 0
    /\ world.gm.usedPortOffset = {0, MaxPortsUsed - 1}

\* C6: currentBattles is the number of battles whose runner has emitted `start`
\* and has not emitted `exit`.
C6_CurrentBattlesCountsStarted ==
    world.gm.currentBattles =
        Cardinality(calls.startEmitted \ calls.exitEmitted)

\* C6 witness: one battle exited without having started, one is started and one
\* start is pending.
C6_Witness ==
    /\ world.gm.currentBattles = 1
    /\ \E b \in calls.exitEmitted : b \notin calls.startEmitted
    /\ \E b \in DOMAIN world.gm.games : world.gm.games[b].started
    /\ \E b \in DOMAIN world.gm.games : ~world.gm.games[b].started

----------------------------------------------------------------------------
(* Claims about the EventsBuffer (SpecBuffer).                             *)

\* C7: while a subscription made with subscribe(since, cb) is in force, what cb
\* was invoked with is, in order and each once, a beginning of: the events that
\* were stored with time > since when it subscribed, the oldest first, then the
\* events pushed since; and cb is never invoked with an event of time <= since.
\* This is to hold also for a subscription made while an invocation of the
\* previous callback was in flight.
C7_DeliveredAsSubscribed ==
    eb.callback =>
        /\ IsPrefix(obs.delivered, obs.expected)
        /\ \A i \in 1..Len(obs.delivered) : obs.delivered[i].time > obs.since

\* C8: every push stamps its event with the maximum of the clock in microseconds
\* and the previous event's timestamp plus one, so that the timestamps grow
\* strictly in push order; and the callback is invoked with the timestamp the
\* event was pushed with.
C8_PushTimestamps ==
    /\ \A i \in 1..Len(obs.pushLog) :
          obs.pushLog[i].time =
              IF i = 1
              THEN obs.pushLog[i].now
              ELSE Max(obs.pushLog[i].now, obs.pushLog[i - 1].time + 1)
    /\ \A i, j \in 1..Len(obs.pushLog) :
          i < j => obs.pushLog[i].time < obs.pushLog[j].time
    /\ \A i \in 1..Len(obs.delivered) :
          obs.delivered[i].time = obs.pushLog[obs.delivered[i].event].time

\* C9: subscribe(since, cb) fails with callback_already_set when a callback is
\* installed; with none installed it fails with too_far_in_the_past when
\* since < now - maxAge and succeeds otherwise, at since = now - maxAge too; and
\* a subscribe that fails leaves the callback, the stored events and the
\* position of the pusher as they were.
C9_SubscribeFailures ==
    \A since \in SinceChoices :
        LET r == Subscribe(eb, env, since)
            tooFar == since < env.now * 1000 - env.maxAge
        IN  /\ eb.callback => r.res = "callback_already_set"
            /\ (~eb.callback /\ tooFar) => r.res = "too_far_in_the_past"
            /\ (~eb.callback /\ ~tooFar) => (r.res = "ok" /\ r.b.callback)
            /\ r.res # "ok" =>
                  /\ r.b.callback = eb.callback
                  /\ r.b.events = eb.events
                  /\ r.b.pusherEventsIdx = eb.pusherEventsIdx
                  /\ r.b = eb

\* C9 witness: a subscribe asking for one microsecond more than maxAge failed
\* with too_far_in_the_past while events were stored and an invocation of the
\* previous callback was still in flight.
C9_Witness ==
    /\ obs.lastSubscribe.res = "too_far_in_the_past"
    /\ obs.lastSubscribe.since = obs.lastSubscribe.now - env.maxAge - 1
    /\ obs.lastSubscribe.now = env.now * 1000
    /\ ~eb.callback
    /\ eb.events # <<>>
    /\ eb.loop = "await"

----------------------------------------------------------------------------
(* Claims about addPlayer (SpecPlayers).                                   *)

\* C10: once the send of the adduser packet of an addPlayer that introduced a
\* new userId has failed, the identity is out of the battle's player index, and
\* an addPlayer reusing its name (while no identity holds that name) with a
\* userId that is not in the battle is accepted: it does not throw.
C10_RolledBackNameAccepted ==
    \A name \in adds.rolledBack, userId \in UserIds :
        (~MiHas(players, "userId", userId) /\ ~MiHas(players, "name", name))
            => AddPlayer(players, userId, name, TRUE).res = "sending"


\* C11: a specPlayers request whose userIds list holds a userId that is not in
\* the battle, at whatever position, fails with invalid_request and hands no
\* packet to sendPacket.
C11_SpecPlayersAllOrNone ==
    /\ \A userIds \in SpecLists :
          (\E i \in 1..Len(userIds) : ~MiHas(players, "userId", userIds[i]))
              => SpecPlayersCall(players, userIds) =
                    [res |-> "invalid_request", packets |-> <<>>]
    /\ specs.last.res = "invalid_request" => specs.last.sent = 0
    /\ (specs.last.res # "none" /\ ~specs.last.allKnown) =>
          specs.last.res = "invalid_request"

\* C11 witness: the last specPlayers named a player of the battle first and an
\* unknown userId after it, and was rejected.
C11_Witness ==
    /\ specs.last.res = "invalid_request"
    /\ specs.last.len = 2
    /\ specs.last.firstKnown
    /\ ~specs.last.allKnown
    /\ specs.last.sent = 0


\* C12: the player index of a battle is a bijection between userId, name and
\* playerNumber: the three maps hold the same identities, each identity is
\* stored under its own value of each field, and no two identities share a
\* userId, a name or a playerNumber.
C12_PlayerIndexBijection ==
    LET ids == {players.userId[u] : u \in DOMAIN players.userId}
    IN  /\ \A k \in MiKeys : {players[k][v] : v \in DOMAIN players[k]} = ids
        /\ \A k \in MiKeys : \A v \in DOMAIN players[k] : players[k][v][k] = v
        /\ \A a, b \in ids : a # b => \A k \in MiKeys : a[k] # b[k]

\* C12 witness: after a rollback, an addPlayer asked MultiIndex.set for a
\* playerNumber that is taken and set threw.
C12_Witness ==
    /\ adds.last.res = "error"
    /\ adds.rolledBack # {}
    /\ MiSize(players) >= 2


----------------------------------------------------------------------------
(* More claims about the GamesManager and the Autohost (SpecGames).        *)

\* C14: the manager emits `exit` for a battle at most once and only when the
\* battle's runner has emitted `start`; for a battle whose runner has emitted
\* no `start` the manager emits no packet, error, exit or capacity event and
\* leaves currentBattles alone, whatever that runner does.
C14_NothingDownstreamBeforeStart ==
    /\ \A b \in BattleIds :
          /\ calls.gmExit[b] <= 1
          /\ calls.gmExit[b] = 1 => b \in calls.startEmitted
    /\ calls.unstarted = {}

\* C14 witness: one runner emitted `exit` without having emitted `start`, and
\* the manager emitted the exit of another battle.
C14_Witness ==
    /\ \E b \in calls.exitEmitted : b \notin calls.startEmitted
    /\ \E b \in BattleIds : calls.gmExit[b] = 1

\* C16: a start request is rejected, and changes nothing, whenever
\* currentBattles >= maxBattles, and also whenever the battles the manager
\* holds, started or still awaiting `start`, number maxBattles: so neither the
\* battles held nor the battles running ever exceed maxBattles.
C16_NeverAboveMaxBattles ==
    /\ world.gm.currentBattles <= MaxBattles
    /\ Cardinality(DOMAIN world.gm.games) <= MaxBattles
    /\ \A b \in BattleIds :
          \/ /\ world.gm.currentBattles < MaxBattles
             /\ Cardinality(DOMAIN world.gm.games) < MaxBattles
          \/ /\ GmStart(world, b).res
                   \in {"battle_already_exists", "invalid_request"}
             /\ GmStart(world, b).w = world

\* C16 witness: maxBattles starts are awaiting `start`, no battle is running,
\* and a start request with an unused id is rejected as invalid_request.
C16_Witness ==
    /\ world.gm.currentBattles = 0
    /\ Cardinality(DOMAIN world.gm.games) = MaxBattles
    /\ \E b \in BattleIds :
          /\ b \notin world.gm.usedBattleIds
          /\ GmStart(world, b).res = "invalid_request"

\* C17: the manager has emitted one `capacity` event for every battle that
\* started and one more for every started battle that exited; every such
\* event carries the currentBattles updated for that start or exit, so the
\* count the adapter reports is the manager's, and it moves by one with every
\* event.
C17_CapacityFollowsCurrentBattles ==
    /\ [](/\ calls.nCapacity =
              Cardinality(calls.startEmitted)
                + Cardinality(calls.startEmitted \cap calls.exitEmitted)
          /\ world.ah.currentStatus = world.gm.currentBattles)
    /\ [][IF calls.nCapacity' = calls.nCapacity
           THEN world.gm.currentBattles' = world.gm.currentBattles
           ELSE /\ calls.nCapacity' = calls.nCapacity + 1
                /\ world.ah.currentStatus' \in {world.ah.currentStatus + 1,
                                                world.ah.currentStatus - 1}]_vars

\* C17 witness: two battles started and exited: four events, and the adapter
\* reports no battle running.
C17_Witness ==
    /\ calls.nCapacity = 4
    /\ world.ah.currentStatus = 0
    /\ Cardinality(calls.startEmitted \cap calls.exitEmitted) = 2

\* C18: every battle that started and whose runner has exited has an
\* engine_quit or engine_crash in the updates; and for every started battle
\* the manager holds that has none so far, the handling of its runner's exit
\* publishes one engine_quit.
C18_ExitedBattleHasTerminalUpdate ==
    /\ \A b \in calls.startEmitted \cap calls.exitEmitted :
          world.ah.updates[b] >= 1
    /\ \A b \in DOMAIN world.gm.games :
          (world.gm.games[b].started /\ world.ah.updates[b] = 0) =>
              GmOnRunnerExit(world, b).ah.updates[b] = 1

\* C18 witness: the runner of a started battle with no terminal update so far
\* has stopped and is about to emit `exit`: the engine sent no SERVER_QUIT and
\* the runner reported no error, and handling the exit makes up the update.
C18_Witness ==
    \E b \in DOMAIN world.gm.games :
        /\ world.gm.games[b].started
        /\ runners[b].exitTick
        /\ world.ah.updates[b] = 0
        /\ b \notin world.ah.finishedBattles
        /\ CountOf(GmOnRunnerExit(world, b).down, "engine_quit") = 1

----------------------------------------------------------------------------
(* More claims about the EngineRunner (SpecRunner).                        *)

\* C15: every assignment to the runner's state goes along None -> Starting,
\* Starting -> Running, Starting -> Stopping, Running -> Stopping or
\* Stopping -> Stopped; _run on a runner that was run changes nothing; and
\* close() on a runner in Stopping or Stopped changes nothing.
C15_StateChangesAlongEdges ==
    /\ ~runner.offEdge
    /\ runner.state # "None" => Run(runner) = runner
    /\ runner.state \in {"Stopping", "Stopped"} => Close(runner) = runner

\* C20: once the runner has recorded a port from the first SERVER_STARTED
\* datagram, a datagram of any type from another source port emits nothing and
\* leaves every field of the runner as it was.
C20_ForeignDatagramDropped ==
    \A type \in PacketTypes, port \in SourcePorts :
        (runner.engineAutohostPort # 0 /\ port # runner.engineAutohostPort) =>
            HandleAutohostPacket(runner, type, port) = runner

\* C20 witness: the engine's port is recorded, the runner is Running, and a
\* datagram from the other port has arrived since.
C20_Witness ==
    /\ runner.state = "Running"
    /\ runner.engineAutohostPort = EnginePort
    /\ order.blocked

----------------------------------------------------------------------------
(* Claims about callTachyonAutohost (SpecCall).                            *)

\* C19: for an envelope of type request, callTachyonAutohost resolves with a
\* response that echoes the messageId and the commandId and that is: failed
\* with command_unimplemented for a commandId that is not registered; failed
\* with invalid_request, the adapter not called, when the data fails the
\* schema of the command; success when the adapter's method returns; failed
\* with the reason of the TachyonError the adapter threw when that reason is
\* allowed for the command; failed with internal_error for any other throw.
C19_ResponseForEveryRequest ==
    call.req.type = "request" =>
        /\ call.res.type = "response"
        /\ call.res.messageId = call.req.messageId
        /\ call.res.commandId = call.req.commandId
        /\ LET outcome == <<call.res.status, call.res.reason>>
               registered == call.req.commandId \in AutohostCommands
               allowed ==
                   /\ call.adapter.kind = "TachyonError"
                   /\ call.adapter.reason \in FailedReasons(call.req.commandId)
           IN  CASE ~registered ->
                      /\ outcome = <<"failed", "command_unimplemented">>
                      /\ ~call.invoked
                 [] registered /\ ~call.valid ->
                      /\ outcome = <<"failed", "invalid_request">>
                      /\ ~call.invoked
                 [] registered /\ call.valid
                      /\ call.adapter.kind = "returns" ->
                      /\ outcome = <<"success", "none">>
                      /\ call.invoked
                 [] registered /\ call.valid /\ allowed ->
                      outcome = <<"failed", call.adapter.reason>>
                 [] OTHER ->
                      outcome = <<"failed", "internal_error">>

\* C19 witness: the adapter's kill threw a TachyonError whose reason is allowed
\* for autohost/start only, and the response fails with internal_error.
C19_Witness ==
    /\ call.req.type = "request"
    /\ call.req.commandId = "autohost/kill"
    /\ call.valid
    /\ call.adapter = [kind |-> "TachyonError",
                       reason |-> "battle_already_exists"]
    /\ call.res.status = "failed"
    /\ call.res.reason = "internal_error"

\* C21: for each engine version at most one install job is unsettled at a
\* time: the in-flight marker is set exactly while the version's job is
\* unsettled, installEngine for a marked version starts no job (no second
\* lookup or download), and installEngine for an unmarked version, one that
\* never had a job or whose job settled, starts one.
C21_OneInstallJobPerVersion ==
    \A v \in EngineVersionNames :
        /\ Len(evm.jobs[v]) <= 1
        /\ v \in evm.installInFlight <=> Len(evm.jobs[v]) = 1
        /\ IF v \in evm.installInFlight
           THEN /\ InstallEngine(evm, v).jobs = evm.jobs
                /\ InstallEngine(evm, v).started = evm.started
           ELSE /\ Len(InstallEngine(evm, v).jobs[v]) = 1
                /\ InstallEngine(evm, v).started[v] = evm.started[v] + 1

\* A version's first job failed and settled, a second job was started for it,
\* and a further installEngine came while that one is downloading.
C21_Witness ==
    \E v \in EngineVersionNames :
        /\ evm.started[v] = 2
        /\ Len(evm.jobs[v]) = 1
        /\ evm.jobs[v][1].stage = "downloadFile"
        /\ evm.log = "engine install already in progress"

\* The directories among those the watcher reported that are versions.
C22_Listed(dirs) == {d \in dirs : d # RootEntry /\ ~StartsWith(d, ".")}

C22_AsSet(list) == {list[i] : i \in 1..Len(list)}

C26_StartSettles ==
    \A b \in BattleIds :
        b \in calls.exitEmitted =>
            /\ calls.startPromise[b] \in {"resolved", "rejected"}
            /\ calls.startPromise[b] = "resolved" <=> b \in calls.startEmitted

\* The timer of battle b invokes Close in this step.
C23_TimerFires(b) ==
    /\ world.gm.timers[b] # NoTimer
    /\ world'.gm.timers[b] = NoTimer
    /\ b \in DOMAIN world'.gm.games

C25_AbsentUntilSent ==
    \A send \in sends :
        send.isNew => ~MiHas(players, "userId", send.userId)

\* C28: an addPlayer call that fails leaves the player index as it was before
\* the call: a call that throws before its send (invalid_request, the error
\* of the index, a name or password the serializer rejects) changes nothing,
\* and a call whose send fails leaves no identity of its own behind.
C28_FailedAddPlayerLeavesIndex ==
    [][/\ IF sends' = sends /\ adds'.last.res # "sending"
          THEN players' = players
          ELSE TRUE
       /\ \A send \in sends \ sends' :
             IF players' # players
             THEN /\ send.isNew
                  /\ ~MiHas(players', "userId", send.userId)
                  /\ players' = MiDelete(players, "userId", send.userId)
             ELSE TRUE]_vars

\* C30: the playerNumber recorded for a new userId is the number of
\* identities already in the battle, and the playerNumbers of the index are
\* always 0..size-1, also when overlapping addPlayer calls are rolled back.
C30_PlayerNumbersDense ==
    /\ [](DOMAIN players.playerNumber = 0..(MiSize(players) - 1))
    /\ [][\A userId \in UserIds :
             IF ~MiHas(players, "userId", userId)
                /\ MiHas(players', "userId", userId)
             THEN players'.userId[userId].playerNumber = MiSize(players)
             ELSE TRUE]_vars

\* The events pushed since the subscription in force began, the oldest first.
C29_PushedWhileAttached ==
    [i \in 1..(Len(obs.pushLog) - obs.attachedAt) |->
        [time |-> obs.pushLog[obs.attachedAt + i].time,
         event |-> obs.attachedAt + i]]

C29_DeliveredOf(pushed) ==
    LET WasPushed(ev) == \E i \in 1..Len(pushed) : pushed[i] = ev
    IN  SelectSeq(obs.delivered, WasPushed)

----------------------------------------------------------------------------
(* The race of close() with the spawn of the engine (LiveSpecRunner).      *)

\* The runner is Stopping while its engine process has neither spawned nor
\* failed to.
ClosedWhileSpawning == runner.proc = "spawning" /\ runner.state = "Stopping"

\* C27: when close() is called after the engine process was created and before
\* its `spawn` event, no signal is sent as long as the process has not spawned;
\* the `spawn` handler sends SIGTERM at once; the runner then emits `exit`, and
\* only once the process has exited and the socket is closed; and when the
\* spawn fails instead, no signal is ever sent and `exit` is emitted as well.
C27_CloseBeforeSpawn ==
    /\ [](runner.proc \in {"spawning", "failed"} => ~runner.sigterm)
    /\ [][IF ClosedWhileSpawning /\ runner'.proc = "alive"
          THEN runner'.sigterm
          ELSE TRUE]_vars
    /\ [](nEmitted["exit"] > 0 => RunnerReleased(runner))
    /\ (ClosedWhileSpawning ~> (nEmitted["exit"] = 1))

\* C27 witness: close() was called, without any error before it, while the
\* engine process was spawning, and sent no signal.
C27_Witness ==
    /\ ClosedWhileSpawning
    /\ closeCalls > 0
    /\ nEmitted["error"] = 0
    /\ ~runner.sigterm

----------------------------------------------------------------------------
(* More claims about the EventsBuffer (SpecBuffer).                        *)

\* C34: at most one invocation of a subscriber callback is in flight at any
\* time, whatever push, unsubscribe and subscribe calls are made meanwhile: an
\* invocation is in flight exactly while the one pusher loop awaits it, and
\* no push or subscribe starts a second loop while pusherRunning is set.
C34_OneCallbackInFlight ==
    /\ obs.inFlight <= 1
    /\ obs.inFlight = 1 <=> eb.loop = "await"
    /\ eb.loop \in {"tick", "await"} => eb.pusherRunning
    /\ \A since \in SinceChoices :
          eb.loop = "await" => Subscribe(eb, env, since).b.loop = "await"
    /\ eb.loop = "await" => Push(eb, env, 0).loop = "await"

\* C34 witness: an invocation of the previous subscription's callback is in
\* flight while a new subscription is in force and events were pushed.
C34_Witness ==
    /\ obs.inFlight = 1
    /\ eb.callback
    /\ obs.delivered = <<>>
    /\ obs.lastSubscribe.res = "ok"
    /\ Len(obs.pushLog) >= 2

\* Event number i of the push log is still stored.
Stored(i) ==
    \E j \in 1..Len(eb.events) :
        /\ eb.events[j].event = i
        /\ eb.events[j].time = obs.pushLog[i].time

\* C35: whenever subscribe(since) would be accepted, every event pushed with a
\* timestamp > since is still stored, so that the replay is complete; also
\* after pushes at one clock value have moved the timestamps ahead of the
\* clock.
C35_AcceptedReplayComplete ==
    \A since \in SinceChoices :
        Subscribe(eb, env, since).res = "ok" =>
            \A i \in 1..Len(obs.pushLog) :
                obs.pushLog[i].time > since => Stored(i)

----------------------------------------------------------------------------
(* Claims about eviction under a subscriber (SpecSubscriber).              *)

\* This step is a push made while the invocation for the event stamped
\* obs.flying is in flight.
PushedInFlight ==
    /\ eb.loop = "await"
    /\ obs.flying > 0
    /\ Len(obs'.pushLog) > Len(obs.pushLog)

\* The event stored at position i before the step is stored after it.
KeptByStep(i) ==
    \E j \in 1..Len(eb'.events) : eb'.events[j] = eb.events[i]

----------------------------------------------------------------------------
(* Claims about eviction (SpecBuffer).                                     *)

\* This step is a push; its eviction threshold; whether its eviction runs.
PushStep == Len(obs'.pushLog) > Len(obs.pushLog)
PushThreshold == PushTime(eb, env) - env.maxAge
EvictionRuns == PushThreshold > eb.lastDropTime + DroppingFrequency(env)

\* After the step the event at position j of the deque is one the running
\* pusher has yet to hand to the callback.
PendingAfterStep(j) ==
    /\ eb'.loop \in {"tick", "await"}
    /\ j - 1 <= eb'.pusherEventsIdx

\* C38: a push keeps the event it pushed; and when its eviction runs, with
\* threshold t - maxAge for the timestamp t of the push, the buffer afterwards
\* holds no event with timestamp <= t - maxAge except the events the pusher
\* has yet to deliver.
C38_EvictionLeavesPendingOnly ==
    [][IF PushStep
       THEN /\ eb'.events # <<>>
            /\ Head(eb'.events).event = Len(obs'.pushLog)
            /\ IF EvictionRuns
               THEN \A j \in 1..Len(eb'.events) :
                       eb'.events[j].time <= PushThreshold
                           => PendingAfterStep(j)
               ELSE TRUE
       ELSE TRUE]_vars

----------------------------------------------------------------------------
(* More claims about the runner (SpecRunner).                              *)

\* C32: while the runner is Starting, a datagram that decodes as any packet
\* other than SERVER_STARTED makes it emit `error` once and nothing else and
\* leaves it Stopping; a runner this happened to has emitted no `start` and no
\* `packet` and never does; a datagram that fails to decode changes nothing in
\* any state, so that a SERVER_STARTED after it is still the first packet.
C32_FirstPacketMustBeServerStarted ==
    /\ [](\A port \in SourcePorts :
            /\ \A type \in PacketTypes \ {"SERVER_STARTED"} :
                  (runner.state = "Starting" /\ runner.udpServer = "open") =>
                      LET r == HandleAutohostPacket(runner, type, port)
                      IN  /\ r.out = <<"error">>
                          /\ r.state = "Stopping"
            /\ HandleAutohostPacket(runner, Undecodable, port) = runner
            /\ runner.state = "Starting" =>
                  LET r == HandleAutohostPacket(runner, "SERVER_STARTED", port)
                  IN  r.out = <<"start", "SERVER_STARTED">>)
    /\ [](order.wrongFirst =>
            /\ runner.state \in {"Stopping", "Stopped"}
            /\ nEmitted["error"] = 1
            /\ nEmitted["start"] = 0
            /\ ~order.packet)

\* C32 witness: the runner was Starting when a packet of another type arrived,
\* after a datagram that did not decode, and it has emitted `error` and `exit`.
C32_Witness ==
    /\ order.wrongFirst
    /\ order.garbled
    /\ nEmitted["error"] = 1
    /\ nEmitted["exit"] = 1

\* A runner that dropped an undecodable datagram while Starting went on to
\* emit `start` and a packet.
C32_StartedAfterGarbage ==
    /\ order.garbled
    /\ nEmitted["start"] = 1
    /\ order.packet

\* C33: a runner arms at most one SIGKILL timer; a timer is armed only
\* together with the SIGTERM sent to a spawned engine process; no timer stays
\* armed once that process has exited; and SIGKILL is sent only by the timer
\* firing while the process has not exited.
C33_OneKillTimer ==
    /\ [](/\ runner.timersArmed <= 1
          /\ runner.timersArmed = 1 <=> runner.sigterm
          /\ runner.sigterm => runner.engineSpawned
          /\ runner.killTimers > 0 => runner.proc = "alive"
          /\ runner.sigkill => (runner.sigterm /\ runner.killTimers = 0))
    /\ [][IF runner'.sigkill /\ ~runner.sigkill
          THEN /\ runner.proc = "alive"
               /\ runner.killTimers = 1
          ELSE TRUE]_vars
    /\ [][IF runner'.timersArmed > runner.timersArmed
          THEN /\ ~runner.sigterm
               /\ runner'.sigterm
               /\ runner'.proc = "alive"
          ELSE TRUE]_vars

\* C33 witness: close() was called, the one timer was armed, fired and sent
\* SIGKILL, and the process has exited since.
C33_Witness ==
    /\ runner.sigkill
    /\ runner.timersArmed = 1
    /\ runner.proc = "dead"
    /\ closeCalls > 0

----------------------------------------------------------------------------
(* Claims about the TachyonClient (SpecClient).                            *)

\* C31: once the client has emitted `close`, also by a close() called while
\* the token fetch or the handshake was pending, it emits no `connected`, no
\* `message` and no second `close`, and every send() rejects.
C31_NothingAfterClose ==
    /\ lobby.seen.closes <= 1
    /\ ~lobby.seen.afterClose
    /\ lobby.seen.closes > 0 => TcSend(lobby.client) = "rejected"
    /\ ~lobby.seen.sentAfterClose

----------------------------------------------------------------------------
(* Claims about the reconnect loop of main (SpecSupervisor).               *)

\* C37: when the connection closes while a request is being processed, the
\* send of its response on the closed client fails without an unhandled
\* rejection: the process is not ended and the loop goes on.
C37_LateResponseHarmless == ~lobby.sup.crashed

\* C39: the reconnect delay starts at 50 ms, is doubled, up to
\* maxReconnectDelaySeconds, when the wait for a client's `close` ends with
\* an `error`, is set to 50 ms when a client emits `connected`, changes at
\* no other step, and is never below 50 ms or above maxReconnectDelaySeconds.
C39_ReconnectBackoff ==
    /\ lobby.sup.nextReconnectDelay = 50
    /\ [](/\ lobby.sup.nextReconnectDelay >= 50
          /\ lobby.sup.nextReconnectDelay <= lobby.sup.maxReconnectDelay)
    /\ [][IF lobby'.seen.connected /\ ~lobby.seen.connected
          THEN lobby'.sup.nextReconnectDelay = 50
          ELSE IF lobby'.seen.errors > lobby.seen.errors
          THEN lobby'.sup.nextReconnectDelay =
                   IF 2 * lobby.sup.nextReconnectDelay
                          <= lobby.sup.maxReconnectDelay
                   THEN 2 * lobby.sup.nextReconnectDelay
                   ELSE lobby.sup.maxReconnectDelay
          ELSE lobby'.sup.nextReconnectDelay = lobby.sup.nextReconnectDelay]_vars

\* Ten connections in a row failed: the delay stands at the 30 s of the
\* default configuration, below the 51200 ms plain doubling would give.
C39_Witness ==
    /\ lobby.sup.maxReconnectDelay = 30000
    /\ lobby.sup.nextReconnectDelay = 30000
    /\ lobby.seen.errors > 0
    /\ lobby.sup.phase = "sleeping"

\* After failures a client connects: the delay is back at 50 ms.
C39_ResetAfterFailures ==
    /\ lobby.sup.clients > 2
    /\ lobby.seen.connected
    /\ lobby.seen.closes = 0
    /\ lobby.sup.nextReconnectDelay = 50

----------------------------------------------------------------------------
(* Claims about the engine archive download (SpecDownload).                *)

\* The attempts the configuration allows: max(1, engineDownloadMaxAttempts).
AllowedAttempts ==
    IF dl.cfgAttempts >= 1 THEN dl.cfgAttempts ELSE 1

\* engineDownloadRetryBackoffBaseMs * 2^(n - 1)
RECURSIVE ExpectedWait(_)
ExpectedWait(n) == IF n <= 1 THEN dl.cfgBase ELSE 2 * ExpectedWait(n - 1)

C40_SecondAttemptMatches ==
    /\ dl.pc = "done"
    /\ dl.cfgAttempts = 3
    /\ dl.attempt = 2
    /\ dl.waits = <<1000>>

====
